---- MODULE Spec2Model ----
(***************************************************************************)
(* The weighted-graph engine of chapter 4: edge-weighted graphs, the       *)
(* minimum-spanning-tree constructors LazyPrimMST, PrimMST and KruskalMST  *)
(* (module_4_3.py) with their helpers MinPQ and GenericUnionFind           *)
(* (basic_data_struct.py), the shortest-path constructors DijkstraSP,      *)
(* AcyclicSP, AcyclicLP and BellmanFordSP (module_4_4.py), and             *)
(* the digraph processing of module_4_2.py (Digragh, DirectedCycle,        *)
(* DepthFirstOrder, Topological).                                          *)
(*                                                                         *)
(* Every constructor runs its main loop one iteration per step; the loops  *)
(* nested inside one iteration (visit, relax, swim, sink, find) are        *)
(* operators evaluated inside that step.                                   *)
(*                                                                         *)
(* Numbers.  In the MST part a weight is a Python int (the doctest graph   *)
(* is held in hundredths, 0.35 as 35).  In the shortest-path part a weight *)
(* is an exact decimal held in thousandths (0.35 as 350), so that          *)
(* round(x, 2) is a real operation; binary floating-point noise is not     *)
(* modelled.                                                               *)
(***************************************************************************)
EXTENDS Integers, Sequences, FiniteSets, TLC

VARIABLES
    input,      \* the test data: the tuples <<a, b, weight>> or pairs <<a, b>> handed to
                \* add_edge or union, in order
    graph,      \* the EdgeWeightedGraph / EdgeWeightedDigraph / Digragh built from input
    start,      \* the start_vertex / source argument of the constructors (None before it is chosen)
    kruskal,    \* the KruskalMST object (the DynamicMST object where one is built)
    lazy,       \* the LazyPrimMST object
    prim,       \* the PrimMST object
    sp,         \* the shortest-path object (DijkstraSP, BellmanFordSP, AcyclicSP or AcyclicLP)
    uf,         \* the GenericUnionFind object
    dc,         \* the DirectedCycle object
    topo,       \* the Topological object
    query       \* the last accessor call made on sp, with what it returned

vars == <<input, graph, start, kruskal, lazy, prim, sp, uf, dc, topo, query>>

(***************************************************************************)
(* Bounds of the explored inputs.                                          *)
(***************************************************************************)
MaxV == 4           \* vertex ids are 0..V-1 with 2 <= V <= MaxV
MaxE == 4           \* at most MaxE edges in a generated graph
MaxWeight == 4      \* generated MST weights are 1..MaxWeight

None == -1          \* Python's None where a vertex id is expected (ids are >= 0)

(***************************************************************************)
(* Generic helpers.                                                        *)
(***************************************************************************)
RECURSIVE SeqToSet(_)
SeqToSet(s) == IF s = <<>> THEN {} ELSE {Head(s)} \cup SeqToSet(Tail(s))

Range(f) == {f[x] : x \in DOMAIN f}

\* the elements of a set of numbers, ascending
RECURSIVE SetToSeq(_)
SetToSeq(S) ==
    IF S = {} THEN <<>>
    ELSE LET m == CHOOSE x \in S : \A y \in S : x <= y
         IN  <<m>> \o SetToSeq(S \ {m})

\* every ordering of a finite set, as sequences
RECURSIVE Perms(_)
Perms(S) ==
    IF S = {} THEN {<<>>}
    ELSE UNION {{<<x>> \o p : p \in Perms(S \ {x})} : x \in S}

\* a loop "for x in s: acc = Op(acc, x)"
RECURSIVE FoldLeft(_, _, _)
FoldLeft(Op(_, _), acc, s) ==
    IF s = <<>> THEN acc ELSE FoldLeft(Op, Op(acc, Head(s)), Tail(s))

(***************************************************************************)
(* Python's unbounded int for sums that can pass 2^31: <<hi, lo>> stands   *)
(* for hi * 10^9 + lo with 0 <= lo < 10^9.                                 *)
(***************************************************************************)
Base == 10 ^ 9

BigOf(n) == <<n \div Base, n % Base>>

BigAdd(x, n) ==
    LET lo == x[2] + (n % Base)
    IN  <<x[1] + (n \div Base) + (lo \div Base), lo % Base>>

RECURSIVE BigSum(_)
BigSum(s) == IF s = <<>> THEN BigOf(0) ELSE BigAdd(BigSum(Tail(s)), Head(s))

(***************************************************************************)
(* module_4_3.Edge                                                         *)
(***************************************************************************)
\* an Edge object; id is the object's identity (its position in the test data)
Edge(a, b, w, id) == [a |-> a, b |-> b, w |-> w, id |-> id]

either(e) == e.a

other(e, vertex) ==
    IF vertex \notin {e.a, e.b} THEN None
    ELSE IF vertex = e.b THEN e.a ELSE e.b

Edge_lt(e, f) == e.w < f.w
Edge_le(e, f) == e.w <= f.w
\* Edge defines no __gt__: e > f is answered by the reflected f.__lt__(e)
Edge_gt(e, f) == Edge_lt(f, e)
\* set membership of Edge objects: equal hash strings "a b w" and __eq__ (equal weights)
Edge_same(e, f) == e.a = f.a /\ e.b = f.b /\ e.w = f.w

(***************************************************************************)
(* module_4_3.EdgeWeightedGraph                                            *)
(*   keys : the keys of the defaultdict _adj in insertion order            *)
(*   adj  : vertex -> the Bag of incident edges in iteration order         *)
(*          (Bag.add puts the new node first)                              *)
(***************************************************************************)
EmptyGraph == [keys |-> <<>>, adj |-> <<>>, edges_size |-> 0]

Bag_add(g, v, edge) ==
    IF v \in DOMAIN g.adj
    THEN [g EXCEPT !.adj[v] = <<edge>> \o @]
    ELSE [g EXCEPT !.adj = @ @@ (v :> <<edge>>), !.keys = Append(@, v)]

\* add_edge that files the edge under its first endpoint only
add_edge_one_sided(g, edge) ==
    [Bag_add(g, either(edge), edge) EXCEPT !.edges_size = @ + 1]

add_edge(g, edge) ==
    LET a == either(edge)
        b == other(edge, a)
        g1 == Bag_add(g, a, edge)
        g2 == Bag_add(g1, b, edge)
    IN  [g2 EXCEPT !.edges_size = @ + 1]

adjacent_edges(g, vertex) == IF vertex \in DOMAIN g.adj THEN g.adj[vertex] ELSE <<>>

\* the graph after the read "self._adj[vertex]" of adjacent_edges: _adj is a
\* defaultdict(Bag), reading a missing key inserts it with an empty Bag
EWG_after_read(g, vertex) ==
    IF vertex \in DOMAIN g.adj THEN g
    ELSE [g EXCEPT !.adj = @ @@ (vertex :> <<>>), !.keys = Append(@, vertex)]

RECURSIVE EWG_after_reads(_, _)
EWG_after_reads(g, vs) ==
    IF vs = <<>> THEN g ELSE EWG_after_reads(EWG_after_read(g, Head(vs)), Tail(vs))

vertices(g) == g.keys

vertices_size(g) == Len(g.keys)

edges_size(g) == g.edges_size

\* the edges in the order the nested loops of edges() meet them
RECURSIVE Concat(_)
Concat(ss) == IF ss = <<>> THEN <<>> ELSE Head(ss) \o Concat(Tail(ss))

AllIncidences(g) ==
    Concat([i \in 1 .. Len(g.keys) |->
              LET v == g.keys[i]
              IN  SelectSeq([j \in 1 .. Len(g.adj[v]) |-> [e |-> g.adj[v][j], v |-> v]],
                            LAMBDA x : other(x.e, x.v) # x.v)])

RECURSIVE SetAddAll(_, _)
SetAddAll(result, incs) ==
    IF incs = <<>> THEN result
    ELSE LET e == Head(incs).e
         IN  SetAddAll(IF \E f \in result : Edge_same(e, f) THEN result ELSE result \cup {e},
                       Tail(incs))

\* EdgeWeightedGraph.edges(): a Python set
edges(g) == SetAddAll({}, AllIncidences(g))

RECURSIVE BuildFrom(_, _, _)
BuildFrom(g, data, i) ==
    IF i > Len(data) THEN g
    ELSE BuildFrom(add_edge(g, Edge(data[i][1], data[i][2], data[i][3], i)), data, i + 1)

\* the doctests' "for a, b, weight in test_data: ewg.add_edge(Edge(a, b, weight))"
BuildGraph(data) == BuildFrom(EmptyGraph, data, 1)

(***************************************************************************)
(* basic_data_struct.MinPQ over Edge objects: _pq is a Python list, index  *)
(* pos of the code is element pos + 1 of the sequence.                     *)
(***************************************************************************)
Swap(pq, i, j) == [pq EXCEPT ![i + 1] = pq[j + 1], ![j + 1] = pq[i + 1]]

RECURSIVE MinPQ_swim(_, _)
MinPQ_swim(pq, pos) ==
    IF pos > 0 /\ Edge_gt(pq[((pos - 1) \div 2) + 1], pq[pos + 1])
    THEN MinPQ_swim(Swap(pq, (pos - 1) \div 2, pos), (pos - 1) \div 2)
    ELSE pq

\* a del_min that leaves the moved element at the root
MinPQ_sink_skipped(pq, pos) == pq

RECURSIVE MinPQ_sink(_, _)
MinPQ_sink(pq, pos) ==
    LET length == Len(pq) - 1
        left == 2 * pos + 1
        index == IF left < length /\ Edge_gt(pq[left + 1], pq[left + 2])
                 THEN left + 1 ELSE left
    IN  IF left <= length
        THEN IF Edge_le(pq[pos + 1], pq[index + 1]) THEN pq
             ELSE MinPQ_sink(Swap(pq, index, pos), index)
        ELSE pq

MinPQ_insert(pq, val) == MinPQ_swim(Append(pq, val), Len(pq))

\* del_min: the value returned and the list left
MinPQ_min(pq) == pq[1]

MinPQ_del_min(pq) ==
    LET last_index == Len(pq) - 1
        swapped == Swap(pq, 0, last_index)
        popped == SubSeq(swapped, 1, last_index)
    IN  MinPQ_sink(popped, 0)

RECURSIVE MinPQ_insert_all(_, _)
MinPQ_insert_all(pq, items) ==
    IF items = <<>> THEN pq
    ELSE MinPQ_insert_all(MinPQ_insert(pq, Head(items)), Tail(items))

(***************************************************************************)
(* basic_data_struct.GenericUnionFind: _id maps a node to its DisjointNode *)
(***************************************************************************)
DisjointNode(parent, size) == [parent |-> parent, size |-> size]

RECURSIVE GUF_root(_, _)
GUF_root(id, tmp) == IF id[tmp].parent # tmp THEN GUF_root(id, id[tmp].parent) ELSE id[tmp].parent

GUF_find(id, node) == IF node \notin DOMAIN id THEN None ELSE GUF_root(id, node)

\* the truth value Python gives an object used as a condition: None and 0 are false
Truthy(x) == x # None /\ x # 0

\* connected: "find(p) and find(q) and find(p) == find(q)", as the caller's "if" reads it
GUF_connected(id, p, q) ==
    Truthy(GUF_find(id, p)) /\ Truthy(GUF_find(id, q)) /\ GUF_find(id, p) = GUF_find(id, q)

Put(id, k, node) == IF k \in DOMAIN id THEN [id EXCEPT ![k] = node] ELSE id @@ (k :> node)

GUF_union(id, p, q) ==
    LET p_root == GUF_find(id, p)
        q_root == GUF_find(id, q)
    IN  IF p_root = q_root
        THEN IF p_root = None /\ q_root = None
             THEN Put(Put(id, p, DisjointNode(q, 1)), q, DisjointNode(q, 2))
             ELSE id
        ELSE IF p_root = None
        THEN [Put(id, p, DisjointNode(q_root, 1)) EXCEPT ![q_root].size = @ + 1]
        ELSE IF q_root = None
        THEN [Put(id, q, DisjointNode(p_root, 1)) EXCEPT ![p_root].size = @ + 1]
        ELSE IF id[p_root].size < id[q_root].size
        THEN [id EXCEPT ![p_root].parent = q_root,
                        ![q_root].size = @ + id[p_root].size]
        ELSE [id EXCEPT ![q_root].parent = p_root,
                        ![p_root].size = @ + id[q_root].size]

(***************************************************************************)
(* module_4_3.KruskalMST                                                   *)
(***************************************************************************)
New == [pc |-> "new"]

\* no accessor has been called yet
NoQuery == [call |-> "none", vertex |-> None, kind |-> "none", num |-> 0, path |-> <<>>]

\* _init_priority_queue: "for edge in graph.edges(): pq.insert(edge)"; order is the
\* order in which the Python set yields its elements
Kruskal_init_priority_queue(order) == MinPQ_insert_all(<<>>, order)

Kruskal_new(order) ==
    [pc |-> "loop", mst |-> <<>>, pq |-> Kruskal_init_priority_queue(order), uf |-> <<>>]

\* "while not pq.is_empty() and self._mst.size() < graph.vertices_size() - 1"
Kruskal_more(k, g) == k.pq # <<>> /\ Len(k.mst) < vertices_size(g) - 1

Kruskal_body(k) ==
    LET edge == MinPQ_min(k.pq)
        pq1 == MinPQ_del_min(k.pq)
        a == either(edge)
        b == other(edge, a)
    IN  IF GUF_connected(k.uf, a, b)
        THEN [k EXCEPT !.pq = pq1]
        ELSE [k EXCEPT !.pq = pq1, !.uf = GUF_union(k.uf, a, b), !.mst = Append(k.mst, edge)]

Finish(obj, more) == IF more THEN obj ELSE [obj EXCEPT !.pc = "done"]

\* pq and uf are locals of __init__: the constructed object keeps _mst alone
Kruskal_finish(k, more) == IF more THEN k ELSE [pc |-> "done", mst |-> k.mst]

RECURSIVE SumSeq(_)
SumSeq(s) == IF s = <<>> THEN 0 ELSE Head(s) + SumSeq(Tail(s))

WeightsOf(es) == [i \in 1 .. Len(es) |-> es[i].w]

\* weight(): "sum(i.weight for i in self._mst)"
Kruskal_weight(k) == BigSum(WeightsOf(k.mst))

Kruskal_edges(k) == k.mst

(***************************************************************************)
(* module_4_3.LazyPrimMST                                                  *)
(***************************************************************************)
RECURSIVE Lazy_visit_edges(_, _, _)
Lazy_visit_edges(l, es, vertex) ==
    IF es = <<>> THEN l
    ELSE Lazy_visit_edges(
            IF other(Head(es), vertex) \notin l.marked
            THEN [l EXCEPT !.pq = MinPQ_insert(l.pq, Head(es))]
            ELSE l,
            Tail(es), vertex)

Lazy_visit(l, g, vertex) ==
    Lazy_visit_edges([l EXCEPT !.marked = @ \cup {vertex}], adjacent_edges(g, vertex), vertex)

Lazy_new(g, start_vertex) ==
    Lazy_visit([pc |-> "loop", pq |-> <<>>, marked |-> {}, mst |-> <<>>], g, start_vertex)

Lazy_more(l) == l.pq # <<>>

\* the iteration without the test of the marks: every dequeued edge is kept
Lazy_body_keeping_stale(l, g) ==
    LET edge == MinPQ_min(l.pq)
        l1 == [l EXCEPT !.pq = MinPQ_del_min(l.pq)]
        a == either(edge)
        b == other(edge, a)
        l2 == [l1 EXCEPT !.mst = Append(l1.mst, edge)]
        l3 == IF a \notin l2.marked THEN Lazy_visit(l2, g, a) ELSE l2
    IN  IF b \notin l3.marked THEN Lazy_visit(l3, g, b) ELSE l3

Lazy_body(l, g) ==
    LET edge == MinPQ_min(l.pq)
        l1 == [l EXCEPT !.pq = MinPQ_del_min(l.pq)]
        a == either(edge)
        b == other(edge, a)
    IN  IF a \in l1.marked /\ b \in l1.marked
        THEN l1
        ELSE LET l2 == [l1 EXCEPT !.mst = Append(l1.mst, edge)]
                 l3 == IF a \notin l2.marked THEN Lazy_visit(l2, g, a) ELSE l2
             IN  IF b \notin l3.marked THEN Lazy_visit(l3, g, b) ELSE l3

\* the vertices one iteration visits, in order: graph.adjacent_edges is called on each
Lazy_body_visits(l) ==
    LET edge == MinPQ_min(l.pq)
        a == either(edge)
        b == other(edge, a)
    IN  IF a \in l.marked /\ b \in l.marked THEN <<>>
        ELSE (IF a \notin l.marked THEN <<a>> ELSE <<>>)
             \o (IF b \notin l.marked \cup {a} THEN <<b>> ELSE <<>>)

Lazy_edges(l) == l.mst

Lazy_weight(l) == BigSum(WeightsOf(l.mst))

(***************************************************************************)
(* IndexMinPQ, the indexed priority queue PrimMST and DijkstraSP import    *)
(* from basic_data_struct: a map from the queued vertices to their keys.   *)
(* delete_min removes a vertex of minimum key; which one among equal keys  *)
(* is left open.                                                           *)
(***************************************************************************)
IndexMinPQ_new == <<>>

IndexMinPQ_contains(pq, v) == v \in DOMAIN pq

IndexMinPQ_insert(pq, v, key) == Put(pq, v, key)

IndexMinPQ_change_key(pq, v, key) ==
    IF v \in DOMAIN pq /\ key < pq[v] THEN [pq EXCEPT ![v] = key] ELSE pq

IndexMinPQ_size(pq) == Cardinality(DOMAIN pq)

IndexMinPQ_is_empty(pq) == DOMAIN pq = {}

\* the vertices delete_min may return
IndexMinPQ_mins(pq) == {v \in DOMAIN pq : \A u \in DOMAIN pq : pq[v] <= pq[u]}

IndexMinPQ_remove(pq, v) == [u \in DOMAIN pq \ {v} |-> pq[u]]

(***************************************************************************)
(* module_4_3.PrimMST                                                      *)
(***************************************************************************)
PRIM_INIT_DIST == 999999999

PrimVisitEdge(p, edge, vertex) ==
    LET other_vertex == other(edge, vertex)
    IN  IF other_vertex \in p.marked THEN p
        ELSE IF edge.w < p.dist_to[other_vertex]
        THEN LET p1 == [p EXCEPT !.edge_to = Put(@, other_vertex, edge),
                                 !.dist_to[other_vertex] = edge.w]
             IN  IF IndexMinPQ_contains(p1.pq, other_vertex)
                 THEN [p1 EXCEPT !.pq = IndexMinPQ_change_key(@, other_vertex,
                                                               p1.dist_to[other_vertex])]
                 ELSE [p1 EXCEPT !.pq = IndexMinPQ_insert(@, other_vertex,
                                                           p1.dist_to[other_vertex])]
        ELSE p

RECURSIVE Prim_visit_edges(_, _, _)
Prim_visit_edges(p, es, vertex) ==
    IF es = <<>> THEN p
    ELSE Prim_visit_edges(PrimVisitEdge(p, Head(es), vertex), Tail(es), vertex)

Prim_visit(p, g, vertex) ==
    Prim_visit_edges([p EXCEPT !.marked = @ \cup {vertex}], adjacent_edges(g, vertex), vertex)

Prim_new(g, start_vertex) ==
    [pc |-> "loop",
     edge_to |-> <<>>,
     dist_to |-> Put([v \in SeqToSet(vertices(g)) |-> PRIM_INIT_DIST], start_vertex, 0),
     marked |-> {},
     pq |-> IndexMinPQ_insert(IndexMinPQ_new, start_vertex, 0)]

\* "while len(self._pq) != 0"
Prim_more(p) == IndexMinPQ_size(p.pq) # 0

\* one iteration, delete_min having returned vertex
Prim_body(p, g, vertex) == Prim_visit([p EXCEPT !.pq = IndexMinPQ_remove(@, vertex)], g, vertex)

\* edges(): "self._edge_to.values()", one edge per key of _edge_to
Prim_edges(p) ==
    LET ks == SetToSeq(DOMAIN p.edge_to)
    IN  [i \in 1 .. Len(ks) |-> p.edge_to[ks[i]]]


\* weight(): "round(sum(val for val in self._dist_to.values()), 2)"; the values are
\* ints, and round(n, 2) of an int is n
Prim_weight(p) ==
    LET ks == SetToSeq(DOMAIN p.dist_to)
    IN  BigSum([i \in 1 .. Len(ks) |-> p.dist_to[ks[i]]])

(***************************************************************************)
(* The undirected inputs.  A generated input lists the edges pair by pair  *)
(* in increasing or in decreasing order of the pair, every pair written    *)
(* (low, high) or every pair written (high, low), over the vertex ids      *)
(* 0..V-1, all of which occur; its weights are 1..m for some               *)
(* m <= MaxWeight (each value used, repeats allowed).  To                  *)
(* these are added, each under a specification of its own, inputs whose   *)
(* weights sit at PrimMST's initial distance, and the test data of the     *)
(* doctests.                                                               *)
(***************************************************************************)
SlotsOf(V) == {<<a, b>> : a \in 0 .. (V - 1), b \in 0 .. (V - 1)} \ {<<a, b>> \in (0 .. (V - 1)) \X (0 .. (V - 1)) : a >= b}

SlotKey(sl) == sl[1] * (MaxV + 1) + sl[2]

RECURSIVE SortedSlots(_)
SortedSlots(S) ==
    IF S = {} THEN <<>>
    ELSE LET m == CHOOSE x \in S : \A y \in S : SlotKey(x) <= SlotKey(y)
         IN  <<m>> \o SortedSlots(S \ {m})

Covers(S, V) == {sl[1] : sl \in S} \cup {sl[2] : sl \in S} = 0 .. (V - 1)

DenseWeights(n) ==
    {wt \in [1 .. n -> 1 .. MaxWeight] : \E m \in 1 .. MaxWeight : Range(wt) = 1 .. m}

Reverse(s) == [i \in 1 .. Len(s) |-> s[Len(s) + 1 - i]]

InputsOn(S) ==
    LET sl == SortedSlots(S)
        n == Len(sl)
        data(fl, wt) == [i \in 1 .. n |-> IF fl THEN <<sl[i][2], sl[i][1], wt[i]>>
                                                 ELSE <<sl[i][1], sl[i][2], wt[i]>>]
    IN  {IF rev THEN Reverse(data(fl, wt)) ELSE data(fl, wt) :
            fl \in BOOLEAN, rev \in BOOLEAN, wt \in DenseWeights(n)}

\* the generated inputs on at most maxV vertices
SmallInputs(maxV) ==
    UNION {UNION {InputsOn(S) :
                    S \in {T \in SUBSET SlotsOf(V) :
                             Cardinality(T) >= 1 /\ Cardinality(T) <= MaxE /\ Covers(T, V)}} :
           V \in 2 .. maxV}

BoundaryWeights == {1, PRIM_INIT_DIST - 1, PRIM_INIT_DIST, PRIM_INIT_DIST + 1}

BoundaryInputs ==
    {<<<<0, 1, w>>>> : w \in BoundaryWeights}
    \cup {<<<<0, 1, w1>>, <<1, 2, w2>>>> : w1 \in BoundaryWeights, w2 \in BoundaryWeights}

\* test_data of the LazyPrimMST, PrimMST and KruskalMST doctests, weights in hundredths
TinyEWG ==
    << <<4, 5, 35>>, <<4, 7, 37>>, <<5, 7, 28>>, <<0, 7, 16>>, <<1, 5, 32>>,
       <<0, 4, 38>>, <<2, 3, 17>>, <<1, 7, 19>>, <<0, 2, 26>>, <<1, 2, 36>>,
       <<1, 3, 29>>, <<2, 7, 34>>, <<6, 2, 40>>, <<3, 6, 52>>, <<6, 0, 58>>,
       <<6, 4, 93>> >>


\* the orders in which graph.edges(), a Python set, may yield its edges: every order
\* of a small set, and for a larger one the two orders by identity
ById(S, up) ==
    LET n == Cardinality(S)
        ids == {e.id : e \in S}
        rank(e) == Cardinality({i \in ids : IF up THEN i <= e.id ELSE i >= e.id})
    IN  [k \in 1 .. n |-> CHOOSE e \in S : rank(e) = k]

SetOrders(S) ==
    IF Cardinality(S) <= MaxE + 1 THEN Perms(S) ELSE {ById(S, TRUE), ById(S, FALSE)}

\* the start vertices tried: every vertex of the graph
StartChoices == SeqToSet(vertices(graph))

\* ... and with them the ids up to MaxV, of which MaxV is a vertex of no generated graph
AnyStart == 0 .. MaxV

(***************************************************************************)
(* The MST specification: on one graph, KruskalMST(graph), then            *)
(* LazyPrimMST(graph, start) and PrimMST(graph, start).                    *)
(***************************************************************************)
InitOn(inputs) ==
    /\ input \in inputs
    /\ graph = BuildGraph(input)
    /\ start = None
    /\ kruskal = New
    /\ lazy = New
    /\ prim = New
    /\ sp = New
    /\ uf = New
    /\ dc = New
    /\ topo = New
    /\ query = NoQuery

InitMST == InitOn(SmallInputs(MaxV))

InitMSTBoundary == InitOn(BoundaryInputs)

InitTinyMST == InitOn({TinyEWG})

KruskalConstruct ==
    /\ kruskal.pc = "new"
    /\ \E order \in SetOrders(edges(graph)) :
         kruskal' = Kruskal_finish(Kruskal_new(order), Kruskal_more(Kruskal_new(order), graph))
    /\ UNCHANGED <<input, graph, start, lazy, prim, sp, uf, dc, topo, query>>

KruskalStep ==
    /\ kruskal.pc = "loop"
    /\ kruskal' = Kruskal_finish(Kruskal_body(kruskal),
                                 Kruskal_more(Kruskal_body(kruskal), graph))
    /\ UNCHANGED <<input, graph, start, lazy, prim, sp, uf, dc, topo, query>>

LazyConstruct ==
    /\ kruskal.pc = "done"
    /\ lazy.pc = "new"
    /\ \E s \in StartChoices :
         /\ start' = s
         /\ lazy' = Finish(Lazy_new(graph, s), Lazy_more(Lazy_new(graph, s)))
         /\ graph' = EWG_after_read(graph, s)
    /\ UNCHANGED <<input, kruskal, prim, sp, uf, dc, topo, query>>

\* LazyPrimMST(graph, start_vertex) with any start_vertex argument, a vertex of the
\* graph or not
LazyConstructAnywhere ==
    /\ kruskal.pc = "done"
    /\ lazy.pc = "new"
    /\ \E s \in AnyStart :
         /\ start' = s
         /\ lazy' = Finish(Lazy_new(graph, s), Lazy_more(Lazy_new(graph, s)))
         /\ graph' = EWG_after_read(graph, s)
    /\ UNCHANGED <<input, kruskal, prim, sp, uf, dc, topo, query>>

LazyStep ==
    /\ lazy.pc = "loop"
    /\ lazy' = Finish(Lazy_body(lazy, graph), Lazy_more(Lazy_body(lazy, graph)))
    /\ graph' = EWG_after_reads(graph, Lazy_body_visits(lazy))
    /\ UNCHANGED <<input, start, kruskal, prim, sp, uf, dc, topo, query>>

PrimConstruct ==
    /\ lazy.pc = "done"
    /\ prim.pc = "new"
    /\ prim' = Finish(Prim_new(graph, start), Prim_more(Prim_new(graph, start)))
    /\ UNCHANGED <<input, graph, start, kruskal, lazy, sp, uf, dc, topo, query>>

PrimStep ==
    /\ prim.pc = "loop"
    /\ \E vertex \in IndexMinPQ_mins(prim.pq) :
         /\ prim' = Finish(Prim_body(prim, graph, vertex),
                           Prim_more(Prim_body(prim, graph, vertex)))
         /\ graph' = EWG_after_read(graph, vertex)
    /\ UNCHANGED <<input, start, kruskal, lazy, sp, uf, dc, topo, query>>

NextMST ==
    \/ KruskalConstruct
    \/ KruskalStep
    \/ LazyConstruct
    \/ LazyStep
    \/ PrimConstruct
    \/ PrimStep

\* the generated graphs
SpecMST == InitMST /\ [][NextMST]_vars

\* the graphs with weights at PrimMST's initial distance
SpecMSTBoundary == InitMSTBoundary /\ [][NextMST]_vars

\* the doctest graph
SpecTinyMST == InitTinyMST /\ [][NextMST]_vars

\* the generated graphs, each shared by the three constructors, with any start argument
NextSharedGraph ==
    \/ KruskalConstruct
    \/ KruskalStep
    \/ LazyConstructAnywhere
    \/ LazyStep
    \/ PrimConstruct
    \/ PrimStep

SpecSharedGraph == InitMST /\ [][NextSharedGraph]_vars

(***************************************************************************)
(* Numbers of the shortest-path part: exact decimals in thousandths.       *)
(* float('inf') is held as a number above, and float('-inf') as a number   *)
(* below, every finite distance of the explored inputs; they absorb        *)
(* addition and rounding as the floats do.                                 *)
(***************************************************************************)
INFINITE_POSITIVE_NUMBER == 1000000000

INFINITE_NEGATIVE_NUMBER == -1000000000

\* dist + weight
Plus(x, w) ==
    IF x = INFINITE_POSITIVE_NUMBER \/ x = INFINITE_NEGATIVE_NUMBER THEN x ELSE x + w

\* round(x, 1): the nearest tenth
Round1(x) ==
    IF x = INFINITE_POSITIVE_NUMBER THEN x
    ELSE LET r == x % 100
             f == x - r
         IN  IF r < 50 THEN f
             ELSE IF r > 50 THEN f + 100
             ELSE IF (f \div 100) % 2 = 0 THEN f ELSE f + 100

\* round(x, 2): the nearest hundredth, a tie going to the even hundredth
Round2(x) ==
    IF x = INFINITE_POSITIVE_NUMBER THEN x
    ELSE LET r == x % 10
             f == x - r
         IN  IF r < 5 THEN f
             ELSE IF r > 5 THEN f + 10
             ELSE IF (f \div 10) % 2 = 0 THEN f ELSE f + 10

(***************************************************************************)
(* module_4_4.DirectedEdge and module_4_4.EdgeWeightedDigraph              *)
(*   vertices : the set _vertices; iterating a Python set of small ints    *)
(*              yields them in ascending order                             *)
(*   adj      : the defaultdict _adj, key -> Bag in iteration order; a     *)
(*              read of a missing key inserts it with an empty Bag         *)
(***************************************************************************)
DirectedEdge(start_, end_, weight, id) ==
    [start |-> start_, end |-> end_, weight |-> weight, id |-> id]

\* None where an edge is expected
NoEdge == [start |-> None, end |-> None, weight |-> 0, id |-> 0]

EWD_new == [vertices |-> {}, adj |-> <<>>, edges_size |-> 0]

EWD_add_edge(g, edge) ==
    [g EXCEPT !.adj = IF edge.start \in DOMAIN @
                      THEN [@ EXCEPT ![edge.start] = <<edge>> \o @]
                      ELSE @ @@ (edge.start :> <<edge>>),
              !.vertices = @ \cup {edge.start, edge.end},
              !.edges_size = @ + 1]

\* adjacent_edges(vertex): the Bag returned ...
EWD_adjacent_edges(g, vertex) == IF vertex \in DOMAIN g.adj THEN g.adj[vertex] ELSE <<>>

\* ... and the graph after the read "self._adj[vertex]"
EWD_after_read(g, vertex) ==
    IF vertex \in DOMAIN g.adj THEN g ELSE [g EXCEPT !.adj = @ @@ (vertex :> <<>>)]

RECURSIVE EWD_after_reads(_, _)
EWD_after_reads(g, vs) ==
    IF vs = <<>> THEN g ELSE EWD_after_reads(EWD_after_read(g, Head(vs)), Tail(vs))

EWD_vertices(g) == SetToSeq(g.vertices)

EWD_vertices_size(g) == Cardinality(g.vertices)

EWD_edges_size(g) == g.edges_size

RECURSIVE BuildDigraphFrom(_, _, _)
BuildDigraphFrom(g, data, i) ==
    IF i > Len(data) THEN g
    ELSE BuildDigraphFrom(EWD_add_edge(g, DirectedEdge(data[i][1], data[i][2], data[i][3], i)),
                          data, i + 1)

\* the doctests' "for a, b, weight in test_data: ewd.add_edge(DirectedEdge(a, b, weight))"
BuildDigraph(data) == BuildDigraphFrom(EWD_new, data, 1)

(***************************************************************************)
(* module_4_4.ShortestPath: the accessors shared by the constructors       *)
(***************************************************************************)
SP_dist_to(o, vertex) == o.dist_to[vertex]

SP_has_path_to(o, vertex) == o.dist_to[vertex] < INFINITE_POSITIVE_NUMBER

\* "dict((v, INFINITE_POSITIVE_NUMBER) for v in graph.vertices())", then "[source] = 0"
SP_init_dist_to(g, source) == Put([v \in g.vertices |-> INFINITE_POSITIVE_NUMBER], source, 0)

\* what an accessor call comes to: a number, "True" or "False", "None", a Stack of edges
\* (kind "path", in iteration order), an exception, or a loop that is never left
Returned(kind, num, path) == [kind |-> kind, num |-> num, path |-> path]

\* path_to's loop "while edge: path.push(edge); edge = self._edge_to[edge.start]"; the
\* walk is a function of the edge, so an edge met again is met for ever
RECURSIVE SP_path_walk(_, _, _, _)
SP_path_walk(o, edge, path, seen) ==
    IF edge = NoEdge THEN Returned("path", 0, path)
    ELSE IF edge \in seen THEN Returned("never returns", 0, <<>>)
    ELSE IF edge.start \notin DOMAIN o.edge_to THEN Returned("KeyError", 0, <<>>)
    ELSE SP_path_walk(o, o.edge_to[edge.start], <<edge>> \o path, seen \cup {edge})

SP_path_to(o, vertex) ==
    IF ~SP_has_path_to(o, vertex) THEN Returned("None", 0, <<>>)
    ELSE IF vertex \notin DOMAIN o.edge_to THEN Returned("KeyError", 0, <<>>)
    ELSE SP_path_walk(o, o.edge_to[vertex], <<>>, {})

\* a path_to that forgets the edge it set out from
SP_path_to_consuming(o, vertex) ==
    IF SP_path_to(o, vertex).kind = "path" /\ SP_path_to(o, vertex).path # <<>>
    THEN [o EXCEPT !.edge_to = Put(@, vertex, NoEdge)]
    ELSE o

\* the object after path_to(vertex): path and edge are locals, self is only read
SP_after_path_to(o, vertex) == o

\* relax_vertex: "for edge in graph.adjacent_edges(vertex)", no rounding
SP_relax_vertex(o, g, vertex) ==
    FoldLeft(LAMBDA acc, edge :
                 IF acc.dist_to[edge.end] > Plus(acc.dist_to[vertex], edge.weight)
                 THEN [acc EXCEPT !.dist_to[edge.end] = Plus(acc.dist_to[vertex], edge.weight),
                                  !.edge_to = Put(@, edge.end, edge)]
                 ELSE acc,
             o, EWD_adjacent_edges(g, vertex))

\* relax_vertex_lp with the comparison of relax_vertex
SP_relax_vertex_lp_unturned(o, g, vertex) ==
    FoldLeft(LAMBDA acc, edge :
                 IF acc.dist_to[edge.end] > Plus(acc.dist_to[vertex], edge.weight)
                 THEN [acc EXCEPT !.dist_to[edge.end] = Plus(acc.dist_to[vertex], edge.weight),
                                  !.edge_to = Put(@, edge.end, edge)]
                 ELSE acc,
             o, EWD_adjacent_edges(g, vertex))

\* relax_vertex_lp: the comparison turned round
SP_relax_vertex_lp(o, g, vertex) ==
    FoldLeft(LAMBDA acc, edge :
                 IF acc.dist_to[edge.end] < Plus(acc.dist_to[vertex], edge.weight)
                 THEN [acc EXCEPT !.dist_to[edge.end] = Plus(acc.dist_to[vertex], edge.weight),
                                  !.edge_to = Put(@, edge.end, edge)]
                 ELSE acc,
             o, EWD_adjacent_edges(g, vertex))

(***************************************************************************)
(* module_4_4.DijkstraSP                                                   *)
(***************************************************************************)
Dijkstra_relax_edge(d, edge, vertex) ==
    LET end == edge.end
    IN  IF d.dist_to[end] > Plus(d.dist_to[vertex], edge.weight)
        THEN LET d1 == [d EXCEPT !.dist_to[end] = Round2(Plus(d.dist_to[vertex], edge.weight)),
                                 !.edge_to = Put(@, end, edge)]
             IN  IF IndexMinPQ_contains(d1.pq, end)
                 THEN [d1 EXCEPT !.pq = IndexMinPQ_change_key(@, end, d1.dist_to[end])]
                 ELSE [d1 EXCEPT !.pq = IndexMinPQ_insert(@, end, d1.dist_to[end])]
        ELSE d

RECURSIVE Dijkstra_relax_edges(_, _, _)
Dijkstra_relax_edges(d, es, vertex) ==
    IF es = <<>> THEN d
    ELSE Dijkstra_relax_edges(Dijkstra_relax_edge(d, Head(es), vertex), Tail(es), vertex)

Dijkstra_relax(d, g, vertex) == Dijkstra_relax_edges(d, EWD_adjacent_edges(g, vertex), vertex)

Dijkstra_new(g, source) ==
    [class |-> "DijkstraSP", pc |-> "loop",
     dist_to |-> SP_init_dist_to(g, source),
     edge_to |-> (source :> NoEdge),
     pq |-> IndexMinPQ_insert(IndexMinPQ_new, source, 0)]

\* "while not self._pq.is_empty()"
Dijkstra_more(d) == ~IndexMinPQ_is_empty(d.pq)

\* one iteration, delete_min having returned vertex
Dijkstra_body(d, g, vertex) ==
    Dijkstra_relax([d EXCEPT !.pq = IndexMinPQ_remove(@, vertex)], g, vertex)

(***************************************************************************)
(* Topological as AcyclicSP and AcyclicLP import it from basic_data_struct *)
(* is not in the source tree.  It is held to its contract: on an acyclic   *)
(* digraph order() is some sequence of all the vertices in which u comes   *)
(* before w for every edge u -> w; on a digraph with a cycle the result is *)
(* undefined or empty, here None or the empty order.                       *)
(***************************************************************************)
NoOrder == <<None>>     \* order() is None

EWTopological_orders(g) ==
    LET adjacent(u, w) == \E i \in DOMAIN EWD_adjacent_edges(g, u) :
                             EWD_adjacent_edges(g, u)[i].end = w
        all == {o \in Perms(g.vertices) :
                  \A i, j \in 1 .. Len(o) : adjacent(o[i], o[j]) => i < j}
    IN  IF all = {} THEN {NoOrder, <<>>} ELSE all

(***************************************************************************)
(* module_4_4.AcyclicSP and module_4_4.AcyclicLP                           *)
(*   order : topo.order();  i : how many of its vertices have been relaxed *)
(***************************************************************************)
AcyclicSP_new(g, source, order) ==
    [class |-> "AcyclicSP", pc |-> "loop",
     dist_to |-> SP_init_dist_to(g, source),
     edge_to |-> (source :> NoEdge),
     order |-> order, i |-> 0, error |-> "none"]

AcyclicLP_new(g, source, order) ==
    [class |-> "AcyclicLP", pc |-> "loop",
     dist_to |-> Put([v \in g.vertices |-> INFINITE_NEGATIVE_NUMBER], source, 0),
     edge_to |-> (source :> NoEdge),
     order |-> order, i |-> 0, error |-> "none"]

\* the loop head taking None for an order without vertices
Acyclic_finish_lenient(a) ==
    IF a.order # NoOrder /\ a.i < Len(a.order) THEN a ELSE [a EXCEPT !.pc = "done"]

\* "for v in topo.order()": iterating None raises TypeError
Acyclic_finish(a) ==
    IF a.order = NoOrder THEN [a EXCEPT !.pc = "raised", !.error = "TypeError"]
    ELSE IF a.i < Len(a.order) THEN a
    ELSE [a EXCEPT !.pc = "done"]

\* one iteration of the loop
Acyclic_body(a, g) ==
    LET v == a.order[a.i + 1]
        a1 == [a EXCEPT !.i = @ + 1]
    IN  IF a.class = "AcyclicSP" THEN SP_relax_vertex(a1, g, v) ELSE SP_relax_vertex_lp(a1, g, v)

(***************************************************************************)
(* module_4_4.EdgeWeightedDirectedCycle: the depth-first search for a      *)
(* directed cycle.  A Stack is held in iteration order, top first.         *)
(***************************************************************************)
NoCycle == <<>>     \* _cycle is None (a cycle found holds at least one edge)

\* "while edge.start != end: push(edge); edge = self._edge_to[edge.start]", then push(edge)
RECURSIVE EWDC_trace(_, _, _, _)
EWDC_trace(edge_to, edge, end, stack) ==
    IF edge.start # end
    THEN EWDC_trace(edge_to, edge_to[edge.start], end, <<edge>> \o stack)
    ELSE <<edge>> \o stack

RECURSIVE EWDC_dfs(_, _, _)
RECURSIVE EWDC_dfs_edges(_, _, _)
EWDC_dfs_edges(c, g, es) ==
    IF es = <<>> THEN c
    ELSE LET edge == Head(es)
             end == edge.end
             c1 == IF end \notin c.mark
                   THEN EWDC_dfs([c EXCEPT !.edge_to = Put(@, end, edge)], g, end)
                   ELSE IF end \in c.on_stack
                   THEN [c EXCEPT !.cycle = EWDC_trace(c.edge_to, edge, end, <<>>)]
                   ELSE c
         IN  EWDC_dfs_edges(c1, g, Tail(es))

EWDC_dfs(c, g, vertex) ==
    LET c1 == [c EXCEPT !.on_stack = @ \cup {vertex}, !.mark = @ \cup {vertex}]
        c2 == EWDC_dfs_edges(c1, g, EWD_adjacent_edges(g, vertex))
    IN  [c2 EXCEPT !.on_stack = @ \ {vertex}]

RECURSIVE EWDC_visit_all(_, _, _)
EWDC_visit_all(c, g, vs) ==
    IF vs = <<>> THEN c
    ELSE EWDC_visit_all(IF Head(vs) \notin c.mark THEN EWDC_dfs(c, g, Head(vs)) ELSE c,
                        g, Tail(vs))

EWDC_new(g) ==
    EWDC_visit_all([mark |-> {}, on_stack |-> {}, edge_to |-> <<>>, cycle |-> NoCycle],
                   g, EWD_vertices(g))

EWDC_cycle(c) == c.cycle

(***************************************************************************)
(* module_4_4.BellmanFordSP                                                *)
(*   queue    : the Queue, front first                                     *)
(*   on_queue : the vertices whose _on_queue entry is True                 *)
(*   error    : the exception that ended the constructor, if one did       *)
(***************************************************************************)
BF_has_negative_cycle(b) == b.cycle # NoCycle

BF_negative_cycle(b) == b.cycle

\* the shortest-paths tree of _find_negative_cycle
RECURSIVE BF_spt(_, _, _)
BF_spt(spt, b, vs) ==
    IF vs = <<>> THEN spt
    ELSE LET v == Head(vs)
         IN  BF_spt(IF v \in DOMAIN b.edge_to /\ b.edge_to[v] # NoEdge
                    THEN EWD_add_edge(spt, b.edge_to[v])
                    ELSE spt,
                    b, Tail(vs))

BF_find_negative_cycle(b, g) ==
    [b EXCEPT !.cycle = EWDC_cycle(EWDC_new(BF_spt(EWD_new, b, EWD_vertices(g))))]

BF_relax_edge(b, g, edge, vertex) ==
    LET end == edge.end
        b1 == IF b.dist_to[end] > Plus(b.dist_to[vertex], edge.weight)
              THEN [b EXCEPT !.dist_to[end] = Round2(Plus(b.dist_to[vertex], edge.weight)),
                             !.edge_to = Put(@, end, edge),
                             !.queue = IF end \in b.on_queue THEN @ ELSE Append(@, end),
                             !.on_queue = @ \cup {end}]
              ELSE b
        b2 == IF b1.cost % EWD_vertices_size(g) = 0 THEN BF_find_negative_cycle(b1, g) ELSE b1
    IN  [b2 EXCEPT !.cost = @ + 1]

RECURSIVE BF_relax_edges(_, _, _, _)
BF_relax_edges(b, g, es, vertex) ==
    IF es = <<>> THEN b
    ELSE BF_relax_edges(BF_relax_edge(b, g, Head(es), vertex), g, Tail(es), vertex)

BF_relax(b, g, vertex) == BF_relax_edges(b, g, EWD_adjacent_edges(g, vertex), vertex)

BF_new(g, source) ==
    [class |-> "BellmanFordSP", pc |-> "loop",
     dist_to |-> SP_init_dist_to(g, source),
     edge_to |-> (source :> NoEdge),
     queue |-> <<source>>,
     on_queue |-> {source},
     cost |-> 0,
     cycle |-> NoCycle,
     error |-> "none"]

\* a loop that goes on whatever cycle has been recorded
BF_more_ignoring_cycle(b) == b.queue # <<>>

\* "while not self._queue.is_empty() and not self._has_negative_cycle()"
BF_more(b) == b.queue # <<>> /\ ~BF_has_negative_cycle(b)

\* one iteration: dequeue, clear the flag, relax
BF_body(b, g) ==
    LET vertex == Head(b.queue)
    IN  BF_relax([b EXCEPT !.queue = Tail(@), !.on_queue = @ \ {vertex}], g, vertex)

\* check(): "ok" for True, "False" for False, "KeyError" where a lookup raises
RECURSIVE BF_check_consistent(_, _, _)
BF_check_consistent(b, vs, source) ==
    IF vs = <<>> THEN "ok"
    ELSE LET v == Head(vs)
         IN  IF v = source THEN BF_check_consistent(b, Tail(vs), source)
             ELSE IF v \notin DOMAIN b.edge_to THEN "KeyError"
             ELSE IF b.edge_to[v] = NoEdge /\ b.dist_to[v] # INFINITE_POSITIVE_NUMBER
             THEN "False"
             ELSE BF_check_consistent(b, Tail(vs), source)

BF_check_relaxed(b, g) ==
    IF \E v \in g.vertices : \E i \in DOMAIN EWD_adjacent_edges(g, v) :
          LET e == EWD_adjacent_edges(g, v)[i]
          IN  Round2(Plus(b.dist_to[v], e.weight)) < b.dist_to[e.end]
    THEN "False" ELSE "ok"

RECURSIVE BF_check_tight(_, _)
BF_check_tight(b, vs) ==
    IF vs = <<>> THEN "ok"
    ELSE LET v == Head(vs)
         IN  IF v \notin DOMAIN b.edge_to THEN "KeyError"
             ELSE IF b.edge_to[v] = NoEdge THEN BF_check_tight(b, Tail(vs))
             ELSE IF v # b.edge_to[v].end THEN "False"
             ELSE IF Round2(Plus(b.dist_to[b.edge_to[v].start], b.edge_to[v].weight))
                        # b.dist_to[v]
             THEN "False"
             ELSE BF_check_tight(b, Tail(vs))

BF_check(b, g, source) ==
    IF BF_has_negative_cycle(b)
    THEN IF SumSeq([i \in 1 .. Len(b.cycle) |-> b.cycle[i].weight]) >= 0 THEN "False" ELSE "ok"
    ELSE IF b.dist_to[source] # 0 \/ b.edge_to[source] # NoEdge THEN "False"
    ELSE IF BF_check_consistent(b, EWD_vertices(g), source) # "ok"
    THEN BF_check_consistent(b, EWD_vertices(g), source)
    ELSE IF BF_check_relaxed(b, g) # "ok" THEN "False"
    ELSE BF_check_tight(b, EWD_vertices(g))

\* the graph after check(): its second loop reads the Bag of every vertex
BF_check_graph(b, g, source) ==
    IF ~BF_has_negative_cycle(b)
       /\ ~(b.dist_to[source] # 0 \/ b.edge_to[source] # NoEdge)
       /\ BF_check_consistent(b, EWD_vertices(g), source) = "ok"
    THEN EWD_after_reads(g, EWD_vertices(g))
    ELSE g

\* the end of __init__: "assert self.check(graph, source)" once the loop is left
BF_finish(b, g, source) ==
    IF BF_more(b) THEN b
    ELSE LET r == BF_check(b, g, source)
         IN  IF r = "ok" THEN [b EXCEPT !.pc = "done"]
             ELSE [b EXCEPT !.pc = "raised",
                            !.error = IF r = "False" THEN "AssertionError" ELSE r]

BF_finish_graph(b, g, source) == IF BF_more(b) THEN g ELSE BF_check_graph(b, g, source)

(***************************************************************************)
(* The directed inputs.  A generated input lists its edges pair by pair in *)
(* increasing or in decreasing order of the ordered pair (self-loops       *)
(* included, no parallel edges) over the vertex ids 0..V-1, all of which   *)
(* occur.  Weights are thousandths whose last digit is even, so that no    *)
(* sum is a tie of round(x, 2): whole hundredths (-0.02 .. 0.01) for       *)
(* BellmanFordSP, and weights finer than a hundredth (0.004) for           *)
(* DijkstraSP and for a second BellmanFordSP specification.                *)
(***************************************************************************)
SPMaxV == 3         \* vertex ids of a generated digraph are 0..V-1 with 1 <= V <= SPMaxV
SPMaxE == 3         \* at most SPMaxE edges in a generated digraph
LiveMaxV == 2       \* ... with 1 <= V <= LiveMaxV where DijkstraSP meets negative weights
LiveMaxE == 2       \* ... and then at most LiveMaxE edges
MaxCost == 40       \* BellmanFordSP is followed up to this many relaxations (_cost)
MaxDescent == 100   \* DijkstraSP is followed while no dist_to is below -MaxDescent

DijkstraWeights == {0, 4, 10}

BellmanFordWeights == {-20, -10, 0, 10}

FineWeights == {-4, 0, 4, 10}

SignedWeights == {-10, 0, 10}

DiSlotsOf(V) == (0 .. (V - 1)) \X (0 .. (V - 1))

DiInputsOn(S, W) ==
    LET sl == SortedSlots(S)
        n == Len(sl)
        data(wt) == [i \in 1 .. n |-> <<sl[i][1], sl[i][2], wt[i]>>]
    IN  {IF rev THEN Reverse(data(wt)) ELSE data(wt) : rev \in BOOLEAN, wt \in [1 .. n -> W]}

DiInputsUpTo(W, maxV, maxE) ==
    UNION {UNION {DiInputsOn(S, W) :
                    S \in {T \in SUBSET DiSlotsOf(V) :
                             Cardinality(T) >= 1 /\ Cardinality(T) <= maxE /\ Covers(T, V)}} :
           V \in 1 .. maxV}

DiInputs(W) == DiInputsUpTo(W, SPMaxV, SPMaxE)

\* test_data of the BellmanFordSP doctest, weights in thousandths
TinyEWDn ==
    << <<4, 5, 350>>, <<5, 4, 350>>, <<4, 7, 370>>, <<5, 7, 280>>, <<7, 5, 280>>,
       <<5, 1, 320>>, <<0, 4, 380>>, <<0, 2, 260>>, <<7, 3, 390>>, <<1, 3, 290>>,
       <<2, 7, 340>>, <<6, 2, -1200>>, <<3, 6, 520>>, <<6, 0, -1400>>, <<6, 4, -1250>> >>

\* test_data of the DijkstraSP doctest, weights in thousandths
TinyEWD ==
    << <<4, 5, 350>>, <<5, 4, 350>>, <<4, 7, 370>>, <<5, 7, 280>>, <<7, 5, 280>>,
       <<5, 1, 320>>, <<0, 4, 380>>, <<0, 2, 260>>, <<7, 3, 390>>, <<1, 3, 290>>,
       <<2, 7, 340>>, <<6, 2, 400>>, <<3, 6, 520>>, <<6, 0, 580>>, <<6, 4, 930>> >>

\* the sources tried: every vertex of the digraph
SourceChoices == graph.vertices

(***************************************************************************)
(* The shortest-path specifications: DijkstraSP(graph, start) and          *)
(* BellmanFordSP(graph, start) on one digraph.                             *)
(***************************************************************************)
InitDigraphOn(inputs) ==
    /\ input \in inputs
    /\ graph = BuildDigraph(input)
    /\ start = None
    /\ kruskal = New
    /\ lazy = New
    /\ prim = New
    /\ sp = New
    /\ uf = New
    /\ dc = New
    /\ topo = New
    /\ query = NoQuery

InitDijkstra == InitDigraphOn(DiInputs(DijkstraWeights))

InitBellmanFord == InitDigraphOn(DiInputs(BellmanFordWeights))

InitBellmanFordFine == InitDigraphOn(DiInputs(FineWeights))

InitTinyBellmanFord == InitDigraphOn({TinyEWDn, TinyEWD})

DijkstraConstruct ==
    /\ sp.pc = "new"
    /\ \E source \in SourceChoices :
         /\ start' = source
         /\ sp' = Finish(Dijkstra_new(graph, source), Dijkstra_more(Dijkstra_new(graph, source)))
    /\ UNCHANGED <<input, graph, kruskal, lazy, prim, uf, dc, topo, query>>

DijkstraStep ==
    /\ sp.pc = "loop" /\ sp.class = "DijkstraSP"
    /\ \A v \in DOMAIN sp.dist_to : sp.dist_to[v] >= -MaxDescent
    /\ \E vertex \in IndexMinPQ_mins(sp.pq) :
         /\ sp' = Finish(Dijkstra_body(sp, graph, vertex),
                         Dijkstra_more(Dijkstra_body(sp, graph, vertex)))
         /\ graph' = EWD_after_read(graph, vertex)
    /\ UNCHANGED <<input, start, kruskal, lazy, prim, uf, dc, topo, query>>

NextDijkstra ==
    \/ DijkstraConstruct
    \/ DijkstraStep

SpecDijkstra == InitDijkstra /\ [][NextDijkstra]_vars

\* weights of either sign; the constructor runs on without a pause, so a step that can
\* be taken is taken
InitDijkstraSigned == InitDigraphOn(DiInputsUpTo(SignedWeights, LiveMaxV, LiveMaxE))

SpecDijkstraSigned == InitDijkstraSigned /\ [][NextDijkstra]_vars /\ WF_vars(NextDijkstra)

BellmanFordConstruct ==
    /\ sp.pc = "new"
    /\ \E source \in SourceChoices :
         /\ start' = source
         /\ sp' = BF_finish(BF_new(graph, source), graph, source)
         /\ graph' = BF_finish_graph(BF_new(graph, source), graph, source)
    /\ UNCHANGED <<input, kruskal, lazy, prim, uf, dc, topo, query>>

BellmanFordStep ==
    /\ sp.pc = "loop" /\ sp.class = "BellmanFordSP"
    /\ sp.cost < MaxCost
    /\ LET g1 == EWD_after_read(graph, Head(sp.queue))
       IN  /\ sp' = BF_finish(BF_body(sp, graph), g1, start)
           /\ graph' = BF_finish_graph(BF_body(sp, graph), g1, start)
    /\ UNCHANGED <<input, start, kruskal, lazy, prim, uf, dc, topo, query>>

NextBellmanFord ==
    \/ BellmanFordConstruct
    \/ BellmanFordStep

\* the generated digraphs, weights in whole hundredths
SpecBellmanFord == InitBellmanFord /\ [][NextBellmanFord]_vars

\* the generated digraphs, weights finer than a hundredth
SpecBellmanFordFine == InitBellmanFordFine /\ [][NextBellmanFord]_vars

\* the doctest digraphs
SpecTinyBellmanFord == InitTinyBellmanFord /\ [][NextBellmanFord]_vars

(***************************************************************************)
(* AcyclicSP(graph, start) and AcyclicLP(graph, start) on one digraph,     *)
(* weights in whole hundredths of either sign.                             *)
(***************************************************************************)
InitAcyclic == InitDigraphOn(DiInputs(SignedWeights))

AcyclicSPConstruct ==
    /\ sp.pc = "new"
    /\ \E source \in SourceChoices : \E order \in EWTopological_orders(graph) :
         /\ start' = source
         /\ sp' = Acyclic_finish(AcyclicSP_new(graph, source, order))
    /\ UNCHANGED <<input, graph, kruskal, lazy, prim, uf, dc, topo, query>>

AcyclicLPConstruct ==
    /\ sp.pc = "new"
    /\ \E source \in SourceChoices : \E order \in EWTopological_orders(graph) :
         /\ start' = source
         /\ sp' = Acyclic_finish(AcyclicLP_new(graph, source, order))
    /\ UNCHANGED <<input, graph, kruskal, lazy, prim, uf, dc, topo, query>>

AcyclicStep ==
    /\ sp.pc = "loop" /\ sp.class \in {"AcyclicSP", "AcyclicLP"}
    /\ sp' = Acyclic_finish(Acyclic_body(sp, graph))
    /\ graph' = EWD_after_read(graph, sp.order[sp.i + 1])
    /\ UNCHANGED <<input, start, kruskal, lazy, prim, uf, dc, topo, query>>

NextAcyclic ==
    \/ AcyclicSPConstruct
    \/ AcyclicLPConstruct
    \/ AcyclicStep

SpecAcyclic == InitAcyclic /\ [][NextAcyclic]_vars

(***************************************************************************)
(* The accessors of a constructed shortest-path object, called in any      *)
(* order and any number of times on any vertex of the digraph.             *)
(***************************************************************************)
Call(name, vertex, returned) == [call |-> name, vertex |-> vertex] @@ returned

DistTo ==
    /\ sp.pc = "done"
    /\ \E v \in graph.vertices :
         query' = Call("dist_to", v, Returned("number", SP_dist_to(sp, v), <<>>))
    /\ UNCHANGED <<input, graph, start, kruskal, lazy, prim, sp, uf, dc, topo>>

HasPathTo ==
    /\ sp.pc = "done"
    /\ \E v \in graph.vertices :
         query' = Call("has_path_to", v,
                       Returned(IF SP_has_path_to(sp, v) THEN "True" ELSE "False", 0, <<>>))
    /\ UNCHANGED <<input, graph, start, kruskal, lazy, prim, sp, uf, dc, topo>>

PathTo ==
    /\ sp.pc = "done"
    /\ \E v \in graph.vertices :
         /\ query' = Call("path_to", v, SP_path_to(sp, v))
         /\ sp' = SP_after_path_to(sp, v)
    /\ UNCHANGED <<input, graph, start, kruskal, lazy, prim, uf, dc, topo>>

AccessorWeights == {-10, 10}

InitAccessors == InitDigraphOn(DiInputs(AccessorWeights))

NextAccessors ==
    \/ DijkstraConstruct
    \/ DijkstraStep
    \/ BellmanFordConstruct
    \/ BellmanFordStep
    \/ AcyclicSPConstruct
    \/ AcyclicLPConstruct
    \/ AcyclicStep
    \/ DistTo
    \/ HasPathTo
    \/ PathTo

SpecAccessors == InitAccessors /\ [][NextAccessors]_vars

(***************************************************************************)
(* module_4_2.Digragh                                                      *)
(*   vertices : the set _vertices                                          *)
(*   adj      : the defaultdict _adj, vertex -> its Bag in iteration order *)
(*              (Bag.add puts the new node first); reading a missing key   *)
(*              makes an empty Bag                                         *)
(***************************************************************************)
Digragh_new == [vertices |-> {}, adj |-> <<>>, edges_size |-> 0]

\* "self._adj[vertex]" on the defaultdict: the graph after the read
Digragh_after_read(g, vertex) ==
    IF vertex \in DOMAIN g.adj THEN g ELSE [g EXCEPT !.adj = @ @@ (vertex :> <<>>)]

Digragh_get_adjacent_vertices(g, vertex) ==
    IF vertex \in DOMAIN g.adj THEN g.adj[vertex] ELSE <<>>

Digragh_has_edge(g, s, e) == e \in SeqToSet(Digragh_get_adjacent_vertices(g, s))

\* has_edge is evaluated first and reads _adj[start], also for an edge that is refused
Digragh_add_edge(g, s, e) ==
    LET g1 == Digragh_after_read(g, s)
    IN  IF Digragh_has_edge(g, s, e) \/ s = e
        THEN g1
        ELSE [g1 EXCEPT !.vertices = @ \cup {s, e},
                        !.adj[s] = <<e>> \o @,
                        !.edges_size = @ + 1]

\* "for v in graph.vertices()": a set of small ints yields them ascending
Digragh_vertices(g) == SetToSeq(g.vertices)

\* "for a, b in test_data: graph.add_edge(a, b)"
BuildDigragh(data) ==
    FoldLeft(LAMBDA g, pair : Digragh_add_edge(g, pair[1], pair[2]), Digragh_new, data)

\* a push that puts the value under the others
Stack_push_under(s, val) == Append(s, val)

\* Stack.push; a Stack is held in the order its iterator yields it, last pushed first
Stack_push(s, val) == <<val>> \o s

(***************************************************************************)
(* module_4_2.DirectedCycle                                                *)
(*   marked, on_stack : the vertices whose flag is True                    *)
(*   cycle            : the Stack _cycle                                   *)
(*   i                : how many vertices the constructor's loop has taken *)
(***************************************************************************)
DC_new ==
    [pc |-> "loop", marked |-> {}, edge_to |-> <<>>, on_stack |-> {}, cycle |-> <<>>, i |-> 0]

DC_has_cycle(o) == o.cycle # <<>>

DC_cycle(o) == o.cycle

\* an unwinding that forgets the vertices between vertex and v
DC_unwind_forgetful(o, cycle, tmp, v) == cycle

\* "while tmp != v: self._cycle.push(tmp); tmp = self._edge_to[tmp]"
RECURSIVE DC_unwind(_, _, _, _)
DC_unwind(o, cycle, tmp, v) ==
    IF tmp # v THEN DC_unwind(o, Stack_push(cycle, tmp), o.edge_to[tmp], v) ELSE cycle

\* dfs; DC_dfs_for is its loop over the adjacent vertices still to come and, after the
\* last, "self._on_stack[vertex] = False"
RECURSIVE DC_dfs(_, _, _), DC_dfs_for(_, _, _, _)
DC_dfs_for(o, g, vertex, left) ==
    IF left = <<>> THEN [o EXCEPT !.on_stack = @ \ {vertex}]
    ELSE LET v == Head(left)
         IN  IF DC_has_cycle(o) THEN o
             ELSE IF v \notin o.marked
             THEN DC_dfs_for(DC_dfs([o EXCEPT !.edge_to = Put(@, v, vertex)], g, v),
                             g, vertex, Tail(left))
             ELSE IF v \in o.on_stack
             THEN DC_dfs_for([o EXCEPT !.cycle =
                                  Stack_push(Stack_push(DC_unwind(o, @, vertex, v), v), vertex)],
                             g, vertex, Tail(left))
             ELSE DC_dfs_for(o, g, vertex, Tail(left))

DC_dfs(o, g, vertex) ==
    DC_dfs_for([o EXCEPT !.on_stack = @ \cup {vertex}, !.marked = @ \cup {vertex}],
               g, vertex, Digragh_get_adjacent_vertices(g, vertex))

\* one iteration of "for v in graph.vertices(): if not self._marked[v]: self.dfs(graph, v)"
DC_body(o, g) ==
    LET v == Digragh_vertices(g)[o.i + 1]
    IN  [(IF v \notin o.marked THEN DC_dfs(o, g, v) ELSE o) EXCEPT !.i = o.i + 1]

\* the loop is over when the vertices are used up
Loop_finish(o, g) ==
    IF o.i = Len(Digragh_vertices(g)) THEN [o EXCEPT !.pc = "done"] ELSE o

\* DirectedCycle(graph), run to its end
RECURSIVE DC_run(_, _)
DC_run(o, g) == IF Loop_finish(o, g).pc = "done" THEN Loop_finish(o, g) ELSE DC_run(DC_body(o, g), g)

\* every dfs(vertex) reads graph._adj[vertex]: the graph after the vertices in read were
\* visited
Digragh_after_reads(g, read) == FoldLeft(Digragh_after_read, g, SetToSeq(read))

(***************************************************************************)
(* module_4_2.DepthFirstOrder                                              *)
(*   pre, post    : the Queues, first enqueued first                       *)
(*   reverse_post : the Stack                                              *)
(***************************************************************************)
DFO_new == [marked |-> {}, pre |-> <<>>, post |-> <<>>, reverse_post |-> <<>>]

RECURSIVE DFO_dfs(_, _, _), DFO_dfs_for(_, _, _, _)
DFO_dfs_for(o, g, vertex, left) ==
    IF left = <<>>
    THEN [o EXCEPT !.post = Append(@, vertex), !.reverse_post = Stack_push(@, vertex)]
    ELSE IF Head(left) \notin o.marked
    THEN DFO_dfs_for(DFO_dfs(o, g, Head(left)), g, vertex, Tail(left))
    ELSE DFO_dfs_for(o, g, vertex, Tail(left))

DFO_dfs(o, g, vertex) ==
    DFO_dfs_for([o EXCEPT !.pre = Append(@, vertex), !.marked = @ \cup {vertex}],
                g, vertex, Digragh_get_adjacent_vertices(g, vertex))

(***************************************************************************)
(* module_4_2.Topological                                                  *)
(*   cycle_finder : the DirectedCycle it ran                               *)
(*   df_order     : the DepthFirstOrder under construction, i the number   *)
(*                  of vertices its constructor's loop has taken           *)
(*   order        : _order, NoOrder for None                               *)
(***************************************************************************)
Topological_new(g) ==
    [pc |-> "loop", cycle_finder |-> DC_run(DC_new, g), order |-> NoOrder,
     df_order |-> DFO_new, i |-> 0]

\* "if not cycle_finder.has_cycle()" and, once the loop of DepthFirstOrder is over,
\* "self._order = df_order.reverse_postfix()"
Topological_finish(t, g) ==
    IF DC_has_cycle(t.cycle_finder) THEN [t EXCEPT !.pc = "done"]
    ELSE IF t.i = Len(Digragh_vertices(g))
    THEN [t EXCEPT !.pc = "done", !.order = t.df_order.reverse_post]
    ELSE t

\* one iteration of DepthFirstOrder's "for v in graph.vertices()"
Topological_body(t, g) ==
    LET v == Digragh_vertices(g)[t.i + 1]
    IN  [t EXCEPT !.i = @ + 1,
                  !.df_order = IF v \notin @.marked THEN DFO_dfs(@, g, v) ELSE @]

Topological_order(t) == t.order

Topological_is_DAG(t) == t.order # NoOrder

(***************************************************************************)
(* DirectedCycle(graph) and Topological(graph) on one Digragh, and the     *)
(* unions of a GenericUnionFind.  test_data is any sequence of 1 to        *)
(* PairsMaxE pairs over the ids 0 .. PairsMaxV - 1, pairs (v, v) and       *)
(* repeated pairs included.  A constructor runs to its end inside its      *)
(* call: the other one is not begun while a loop is under way.             *)
(***************************************************************************)
PairsMaxV == 4      \* the ids of a pair are 0 .. PairsMaxV - 1
PairsMaxE == 4      \* test_data holds 1 .. PairsMaxE pairs

PairInputs(maxV, maxE) ==
    UNION {[1 .. n -> (0 .. (maxV - 1)) \X (0 .. (maxV - 1))] : n \in 1 .. maxE}

InitDigragh ==
    /\ input \in PairInputs(PairsMaxV, PairsMaxE)
    /\ graph = BuildDigragh(input)
    /\ start = None
    /\ kruskal = New
    /\ lazy = New
    /\ prim = New
    /\ sp = New
    /\ uf = New
    /\ dc = New
    /\ topo = New
    /\ query = NoQuery

DirectedCycleConstruct ==
    /\ dc.pc = "new" /\ topo.pc # "loop"
    /\ dc' = Loop_finish(DC_new, graph)
    /\ UNCHANGED <<input, graph, start, kruskal, lazy, prim, sp, uf, topo, query>>

DirectedCycleStep ==
    /\ dc.pc = "loop"
    /\ dc' = Loop_finish(DC_body(dc, graph), graph)
    /\ graph' = Digragh_after_reads(graph, DC_body(dc, graph).marked)
    /\ UNCHANGED <<input, start, kruskal, lazy, prim, sp, uf, topo, query>>

TopologicalConstruct ==
    /\ topo.pc = "new" /\ dc.pc # "loop"
    /\ topo' = Topological_finish(Topological_new(graph), graph)
    /\ graph' = Digragh_after_reads(graph, Topological_new(graph).cycle_finder.marked)
    /\ UNCHANGED <<input, start, kruskal, lazy, prim, sp, uf, dc, query>>

TopologicalStep ==
    /\ topo.pc = "loop"
    /\ topo' = Topological_finish(Topological_body(topo, graph), graph)
    /\ graph' = Digragh_after_reads(graph, Topological_body(topo, graph).df_order.marked)
    /\ UNCHANGED <<input, start, kruskal, lazy, prim, sp, uf, dc, query>>

NextDigragh ==
    \/ DirectedCycleConstruct
    \/ DirectedCycleStep
    \/ TopologicalConstruct
    \/ TopologicalStep

SpecDigragh == InitDigragh /\ [][NextDigragh]_vars

(***************************************************************************)
(* guf = GenericUnionFind(), then "for i, j in connections: guf.union(i,   *)
(* j)" over test_data; uf.i is the number of pairs taken.                  *)
(***************************************************************************)
GUF_new == [pc |-> "ready", id |-> <<>>, i |-> 0]

InitUnionFind ==
    /\ input \in PairInputs(PairsMaxV, PairsMaxE)
    /\ graph = EmptyGraph
    /\ start = None
    /\ kruskal = New
    /\ lazy = New
    /\ prim = New
    /\ sp = New
    /\ uf = New
    /\ dc = New
    /\ topo = New
    /\ query = NoQuery

GUFConstruct ==
    /\ uf.pc = "new"
    /\ uf' = GUF_new
    /\ UNCHANGED <<input, graph, start, kruskal, lazy, prim, sp, dc, topo, query>>

GUFUnion ==
    /\ uf.pc = "ready" /\ uf.i < Len(input)
    /\ uf' = [uf EXCEPT !.id = GUF_union(@, input[uf.i + 1][1], input[uf.i + 1][2]),
                        !.i = @ + 1]
    /\ UNCHANGED <<input, graph, start, kruskal, lazy, prim, sp, dc, topo, query>>

NextUnionFind ==
    \/ GUFConstruct
    \/ GUFUnion

SpecUnionFind == InitUnionFind /\ [][NextUnionFind]_vars

(***************************************************************************)
(* module_1_5.UnionFind, the union-find with path compression              *)
(*   id    : the list _id, node -> parent, a root being its own parent     *)
(*   count : _count                                                        *)
(***************************************************************************)
UF_new(size) == [pc |-> "ready", id |-> [i \in 0 .. (size - 1) |-> i], count |-> size]

UF_count(o) == o.count

\* len(self._id)
UF_len(o) == Cardinality(DOMAIN o.id)

UF_validate(o, node) == 0 <= node /\ node < UF_len(o)

\* find's first loop, "while root != self._id[root]: root = self._id[root]"; the walk is
\* a function of the node, so a node met again is met for ever
RECURSIVE UF_root(_, _, _)
UF_root(id, root, seen) ==
    IF root = id[root] THEN Returned("number", root, <<>>)
    ELSE IF root \in seen THEN Returned("never returns", 0, <<>>)
    ELSE UF_root(id, id[root], seen \cup {root})

\* a compression that hangs the root under the node it set out from
UF_compress_upside_down(id, node, root) ==
    IF node = root THEN id ELSE [id EXCEPT ![root] = node]

\* find's second loop, "while node != root: new_node = self._id[node];
\* self._id[node] = root; node = new_node"
RECURSIVE UF_compress(_, _, _)
UF_compress(id, node, root) ==
    IF node = root THEN id ELSE UF_compress([id EXCEPT ![node] = root], id[node], root)

\* the nodes the second loop assigns, in order
RECURSIVE UF_rewritten(_, _, _)
UF_rewritten(id, node, root) ==
    IF node = root THEN <<>> ELSE <<node>> \o UF_rewritten(id, id[node], root)

\* find(node): the object afterwards and what the call comes to
UF_find(o, node) ==
    IF ~UF_validate(o, node) THEN [after |-> o, returned |-> Returned("None", 0, <<>>)]
    ELSE LET walk == UF_root(o.id, node, {})
         IN  IF walk.kind # "number" THEN [after |-> o, returned |-> walk]
             ELSE [after |-> [o EXCEPT !.id = UF_compress(@, node, walk.num)],
                   returned |-> Returned("number", walk.num,
                                         UF_rewritten(o.id, node, walk.num))]

\* union(p, q): both finds are made, and compress, before anything is tested
UF_union(o, p, q) ==
    LET p_found == UF_find(o, p)
        q_found == UF_find(p_found.after, q)
        p_root == p_found.returned.num
        q_root == q_found.returned.num
    IN  IF p_found.returned.kind # "number" \/ q_found.returned.kind # "number"
        THEN q_found.after
        ELSE IF p_root = q_root THEN q_found.after
        ELSE [q_found.after EXCEPT !.id[p_root] = q_root, !.count = @ - 1]

(***************************************************************************)
(* uf = UnionFind(size), then union and find calls in any order and        *)
(* number, on the ids 0 .. size - 1 and on the two ids just outside.       *)
(* input is the size.                                                      *)
(***************************************************************************)
UFMaxSize == 4      \* UnionFind(size) with 1 <= size <= UFMaxSize

InitPathCompression ==
    /\ input \in 1 .. UFMaxSize
    /\ graph = EmptyGraph
    /\ start = None
    /\ kruskal = New
    /\ lazy = New
    /\ prim = New
    /\ sp = New
    /\ uf = New
    /\ dc = New
    /\ topo = New
    /\ query = NoQuery

UFConstruct ==
    /\ uf.pc = "new"
    /\ uf' = UF_new(input)
    /\ UNCHANGED <<input, graph, start, kruskal, lazy, prim, sp, dc, topo, query>>

UFUnion ==
    /\ uf.pc = "ready"
    /\ \E p, q \in (-1) .. input :
         /\ uf' = UF_union(uf, p, q)
         /\ query' = Call("union", p, Returned("None", 0, <<>>))
    /\ UNCHANGED <<input, graph, start, kruskal, lazy, prim, sp, dc, topo>>

UFFind ==
    /\ uf.pc = "ready"
    /\ \E node \in (-1) .. input :
         /\ uf' = UF_find(uf, node).after
         /\ query' = Call("find", node, UF_find(uf, node).returned)
    /\ UNCHANGED <<input, graph, start, kruskal, lazy, prim, sp, dc, topo>>

NextPathCompression ==
    \/ UFConstruct
    \/ UFUnion
    \/ UFFind

SpecPathCompression == InitPathCompression /\ [][NextPathCompression]_vars

(***************************************************************************)
(* module_4_3.WeightedGraph: the graph of practice 4.3.28 on primitive     *)
(* data.  An edge is the Python tuple (weight, a, b), here <<weight, a,    *)
(* b>>; _adj is a defaultdict(list), "append" puts the new edge last.      *)
(***************************************************************************)
WG_new == [keys |-> <<>>, adj |-> <<>>, edges_size |-> 0]

\* "self._adj[v].append(edge)"
WG_append(g, v, edge) ==
    IF v \in DOMAIN g.adj
    THEN [g EXCEPT !.adj[v] = Append(@, edge)]
    ELSE [g EXCEPT !.adj = @ @@ (v :> <<edge>>), !.keys = Append(@, v)]

\* edge[1] and edge[2] of the code are the second and third component
WG_add_edge(g, edge) ==
    [WG_append(WG_append(g, edge[2], edge), edge[3], edge) EXCEPT !.edges_size = @ + 1]

WG_edges_size(g) == g.edges_size

WG_vertices(g) == g.keys

WG_adjacent_edges(g, vertex) == IF vertex \in DOMAIN g.adj THEN g.adj[vertex] ELSE <<>>

\* edges(): "for a, b, weight in self.adjacent_edges(v)" unpacks the tuple in the order
\* it is stored, so the names a and b of the loop hold its first and second component
WG_edges(g) ==
    {t \in UNION {SeqToSet(g.adj[v]) : v \in SeqToSet(g.keys)} : t[1] # t[2]}

(***************************************************************************)
(* Building graphs call by call: one graph object of one of the three      *)
(* weighted graph classes, and add_edge calls with any endpoints           *)
(* (self-loops and parallel edges included).  input holds the arguments    *)
(* <<a, b, weight>> of the calls made so far; the k-th Edge or             *)
(* DirectedEdge object created has id k.                                   *)
(***************************************************************************)
GraphMaxV == 3        \* endpoints are 0 .. GraphMaxV - 1
GraphMaxE == 3        \* at most GraphMaxE add_edge calls
GraphMaxWeight == 2   \* weights are 1 .. GraphMaxWeight

OfClass(class, g) == [class |-> class] @@ g

InitGraphs ==
    /\ input = <<>>
    /\ graph \in {OfClass("EdgeWeightedGraph", EmptyGraph),
                  OfClass("EdgeWeightedDigraph", EWD_new),
                  OfClass("WeightedGraph", WG_new)}
    /\ start = None
    /\ kruskal = New
    /\ lazy = New
    /\ prim = New
    /\ sp = New
    /\ uf = New
    /\ dc = New
    /\ topo = New
    /\ query = NoQuery

\* ewg.add_edge(Edge(a, b, weight))
EWGAddEdge ==
    /\ graph.class = "EdgeWeightedGraph"
    /\ Len(input) < GraphMaxE
    /\ \E a, b \in 0 .. (GraphMaxV - 1), weight \in 1 .. GraphMaxWeight :
         /\ input' = Append(input, <<a, b, weight>>)
         /\ graph' = add_edge(graph, Edge(a, b, weight, Len(input) + 1))
    /\ UNCHANGED <<start, kruskal, lazy, prim, sp, uf, dc, topo, query>>

\* ewd.add_edge(DirectedEdge(a, b, weight))
EWDAddEdge ==
    /\ graph.class = "EdgeWeightedDigraph"
    /\ Len(input) < GraphMaxE
    /\ \E a, b \in 0 .. (GraphMaxV - 1), weight \in 1 .. GraphMaxWeight :
         /\ input' = Append(input, <<a, b, weight>>)
         /\ graph' = EWD_add_edge(graph, DirectedEdge(a, b, weight, Len(input) + 1))
    /\ UNCHANGED <<start, kruskal, lazy, prim, sp, uf, dc, topo, query>>

\* wg.add_edge((weight, a, b))
WGAddEdge ==
    /\ graph.class = "WeightedGraph"
    /\ Len(input) < GraphMaxE
    /\ \E a, b \in 0 .. (GraphMaxV - 1), weight \in 1 .. GraphMaxWeight :
         /\ input' = Append(input, <<a, b, weight>>)
         /\ graph' = WG_add_edge(graph, <<weight, a, b>>)
    /\ UNCHANGED <<start, kruskal, lazy, prim, sp, uf, dc, topo, query>>

NextGraphs ==
    \/ EWGAddEdge
    \/ EWDAddEdge
    \/ WGAddEdge

SpecGraphs == InitGraphs /\ [][NextGraphs]_vars

(***************************************************************************)
(* What the MST properties speak of: the graph's vertices and edges,       *)
(* connectivity through a set of edges, spanning trees and their weight.   *)
(***************************************************************************)
GraphVertices == SeqToSet(vertices(graph))

GraphEdges == {Edge(input[i][1], input[i][2], input[i][3], i) : i \in DOMAIN input}

\* the vertices joined to a vertex of S by edges of T
RECURSIVE Reach(_, _)
Reach(T, S) ==
    LET N == S \cup {e.b : e \in {f \in T : f.a \in S}} \cup {e.a : e \in {f \in T : f.b \in S}}
    IN  IF N = S THEN S ELSE Reach(T, N)

Joined(T, u, v) == v \in Reach(T, {u})

Components(T) == {Reach(T, {v}) : v \in GraphVertices}

ConnectedGraph == Cardinality(Components(GraphEdges)) = 1

\* a sequence of edges without a cycle: every edge joins two components
Acyclic(es) == Len(es) + Cardinality(Components(SeqToSet(es))) = Cardinality(GraphVertices)

TouchesAll(es) == {e.a : e \in SeqToSet(es)} \cup {e.b : e \in SeqToSet(es)} = GraphVertices

RECURSIVE SetWeight(_)
SetWeight(T) ==
    IF T = {} THEN 0
    ELSE LET e == CHOOSE x \in T : TRUE IN e.w + SetWeight(T \ {e})

SpanningTrees ==
    {T \in SUBSET GraphEdges :
        Cardinality(T) = Cardinality(GraphVertices) - 1 /\ Cardinality(Components(T)) = 1}

MinSpanWeight ==
    LET ws == {SetWeight(T) : T \in SpanningTrees}
    IN  CHOOSE w \in ws : \A x \in ws : w <= x

IsMST(es) ==
    /\ SeqToSet(es) \subseteq GraphEdges
    /\ Len(es) = Cardinality(GraphVertices) - 1
    /\ Acyclic(es)
    /\ TouchesAll(es)
    /\ BigSum(WeightsOf(es)) = BigOf(MinSpanWeight)

DistinctWeights == \A i, j \in DOMAIN input : i # j => input[i][3] # input[j][3]

SimpleGraph ==
    /\ \A i \in DOMAIN input : input[i][1] # input[i][2]
    /\ \A i, j \in DOMAIN input :
          i # j => {input[i][1], input[i][2]} # {input[j][1], input[j][2]}

AllBuilt == kruskal.pc = "done" /\ lazy.pc = "done" /\ prim.pc = "done"

NonDecreasing(es) == \A i \in 1 .. (Len(es) - 1) : es[i].w <= es[i + 1].w

(***************************************************************************)
(* C1.  On a connected graph without self-loops and parallel edges whose   *)
(* edge weights are pairwise distinct, and for every start vertex,         *)
(* LazyPrimMST(g, s).weight(), PrimMST(g, s).weight() and                  *)
(* KruskalMST(g).weight() are all equal.                                   *)
(***************************************************************************)
C1_WeightsAgree ==
    (AllBuilt /\ ConnectedGraph /\ SimpleGraph /\ DistinctWeights)
        => /\ Lazy_weight(lazy) = Prim_weight(prim)
           /\ Prim_weight(prim) = Kruskal_weight(kruskal)

(***************************************************************************)
(* C2.  On a connected graph and for every start vertex, the edges of      *)
(* LazyPrimMST(g, s) and the edges of PrimMST(g, s) each form a minimum    *)
(* spanning tree: V - 1 edges of the graph, no cycle, every vertex         *)
(* touched, total weight the minimum over all spanning trees (repeated     *)
(* weights allowed).                                                       *)
(***************************************************************************)
C2_PrimsReturnMST ==
    (AllBuilt /\ ConnectedGraph)
        => IsMST(Lazy_edges(lazy)) /\ IsMST(Prim_edges(prim))

\* the LazyPrimMST half of C2
C2_LazyReturnsMST == (lazy.pc = "done" /\ ConnectedGraph) => IsMST(Lazy_edges(lazy))

(***************************************************************************)
(* C3.  On any graph the edges of KruskalMST(g) form a spanning forest:    *)
(* they are edges of the graph without a cycle, two vertices are joined by *)
(* them exactly when they are connected in the graph, and there are V - 1  *)
(* of them when the graph is connected.                                    *)
(***************************************************************************)
C3_KruskalSpanningForest ==
    kruskal.pc = "done"
        => /\ SeqToSet(Kruskal_edges(kruskal)) \subseteq GraphEdges
           /\ Acyclic(Kruskal_edges(kruskal))
           /\ \A u, v \in GraphVertices :
                 Joined(SeqToSet(Kruskal_edges(kruskal)), u, v) <=> Joined(GraphEdges, u, v)
           /\ ConnectedGraph => Len(Kruskal_edges(kruskal)) = Cardinality(GraphVertices) - 1

(***************************************************************************)
(* C4.  For each of LazyPrimMST, PrimMST and KruskalMST and every graph,   *)
(* connected or not, weight() is the sum of the weights of the edges that  *)
(* edges() returns.                                                        *)
(***************************************************************************)
C4_WeightIsSumOfEdges ==
    /\ kruskal.pc = "done" => Kruskal_weight(kruskal) = BigSum(WeightsOf(Kruskal_edges(kruskal)))
    /\ lazy.pc = "done" => Lazy_weight(lazy) = BigSum(WeightsOf(Lazy_edges(lazy)))
    /\ prim.pc = "done" => Prim_weight(prim) = BigSum(WeightsOf(Prim_edges(prim)))

(***************************************************************************)
(* C5.  On the 8-vertex, 16-edge test graph LazyPrimMST from 0, PrimMST    *)
(* from 0 and KruskalMST each return 7 edges of total weight 1.81, and     *)
(* KruskalMST returns its edges in non-decreasing order of weight.         *)
(***************************************************************************)
C5_TinyGraphResults ==
    /\ (input = TinyEWG /\ kruskal.pc = "done")
          => /\ Len(Kruskal_edges(kruskal)) = 7
             /\ Kruskal_weight(kruskal) = BigOf(181)
             /\ NonDecreasing(Kruskal_edges(kruskal))
    /\ (input = TinyEWG /\ start = 0 /\ lazy.pc = "done")
          => /\ Len(Lazy_edges(lazy)) = 7
             /\ Lazy_weight(lazy) = BigOf(181)
    /\ (input = TinyEWG /\ start = 0 /\ prim.pc = "done")
          => /\ Len(Prim_edges(prim)) = 7
             /\ Prim_weight(prim) = BigOf(181)

C5_Witness == input = TinyEWG /\ start = 0 /\ AllBuilt /\ Len(Prim_edges(prim)) = 7

(***************************************************************************)
(* What the shortest-path properties speak of: reachability, the weight of *)
(* a shortest path, negative cycles.                                       *)
(***************************************************************************)
DiVertices == {input[i][1] : i \in DOMAIN input} \cup {input[i][2] : i \in DOMAIN input}

DiEdges == {DirectedEdge(input[i][1], input[i][2], input[i][3], i) : i \in DOMAIN input}

\* the vertices a directed path leads to from a vertex of S
RECURSIVE DiReach(_)
DiReach(S) ==
    LET N == S \cup {e.end : e \in {f \in DiEdges : f.start \in S}}
    IN  IF N = S THEN S ELSE DiReach(N)

Reachable(s) == DiReach({s})

AllReachable == Reachable(start) = DiVertices

MinOf(S) == CHOOSE x \in S : \A y \in S : x <= y

\* the least weight of a path of at most k edges from s, for every vertex
RECURSIVE PathWeights(_, _)
PathWeights(s, k) ==
    IF k = 0 THEN [v \in DiVertices |-> IF v = s THEN 0 ELSE INFINITE_POSITIVE_NUMBER]
    ELSE LET D == PathWeights(s, k - 1)
         IN  [v \in DiVertices |->
                MinOf({D[v]} \cup {Plus(D[e.start], e.weight) : e \in {f \in DiEdges : f.end = v}})]

\* without a negative cycle a shortest path has at most V - 1 edges
ShortestDist(s) == PathWeights(s, Cardinality(DiVertices) - 1)

\* a directed cycle through the distinct vertices p[1], ..., p[n], taking the lightest
\* edge between two vertices, of negative weight
CycleWeight(p) ==
    SumSeq([i \in 1 .. Len(p) |->
              MinOf({e.weight : e \in {f \in DiEdges : f.start = p[i]
                                                       /\ f.end = p[(i % Len(p)) + 1]}})])

NegativeCycleReachable(s) ==
    \E n \in 1 .. Cardinality(DiVertices) : \E p \in [1 .. n -> DiVertices] :
        /\ \A i, j \in 1 .. n : i # j => p[i] # p[j]
        /\ \A i \in 1 .. n : \E e \in DiEdges : e.start = p[i] /\ e.end = p[(i % n) + 1]
        /\ p[1] \in Reachable(s)
        /\ CycleWeight(p) < 0

NonNegativeWeights == \A i \in DOMAIN input : input[i][3] >= 0

\* the constructor has returned or raised
Ended == sp.pc \in {"done", "raised"}

EveryEdgeRelaxed ==
    \A e \in DiEdges : sp.dist_to[e.end] <= Plus(sp.dist_to[e.start], e.weight)

(***************************************************************************)
(* C6.  On a digraph whose weights are all >= 0 (zero included) and for    *)
(* every source, DijkstraSP(g, s) ends with dist_to(s) = 0, dist_to(v) the *)
(* minimum weight of a path from s to v for every reachable v, and         *)
(* dist_to(v) = +infinity for every unreachable v.                         *)
(***************************************************************************)
C6_DijkstraDistances ==
    (sp.pc = "done" /\ NonNegativeWeights)
        => /\ SP_dist_to(sp, start) = 0
           /\ \A v \in Reachable(start) : SP_dist_to(sp, v) = ShortestDist(start)[v]
           /\ \A v \in DiVertices \ Reachable(start) :
                 SP_dist_to(sp, v) = INFINITE_POSITIVE_NUMBER

(***************************************************************************)
(* C7.  Whenever BellmanFordSP(g, s) completes without reporting a         *)
(* negative cycle: dist_to[s] = 0 and edge_to[s] is None; every edge       *)
(* (u, w, weight) has dist_to[w] <= dist_to[u] + weight; every vertex v    *)
(* with a predecessor edge e has e.end = v and                             *)
(* dist_to[v] = dist_to[e.start] + e.weight; so dist_to(v) is the weight   *)
(* of a shortest path from s.                                              *)
(***************************************************************************)
C7_BellmanFordOptimality ==
    (sp.pc = "done" /\ ~BF_has_negative_cycle(sp))
        => /\ sp.dist_to[start] = 0
           /\ sp.edge_to[start] = NoEdge
           /\ EveryEdgeRelaxed
           /\ \A v \in DOMAIN sp.edge_to :
                 sp.edge_to[v] # NoEdge
                     => /\ sp.edge_to[v].end = v
                        /\ sp.dist_to[v] = Plus(sp.dist_to[sp.edge_to[v].start],
                                                sp.edge_to[v].weight)
           /\ ~NegativeCycleReachable(start)
           /\ \A v \in DiVertices : sp.dist_to[v] = ShortestDist(start)[v]

(***************************************************************************)
(* C8.  On a digraph every vertex of which is reachable from s,            *)
(* BellmanFordSP(g, s) finishes, with has_negative_cycle() true exactly    *)
(* when a negative cycle is reachable from s; without such a cycle the     *)
(* loop ends with an empty queue and has_negative_cycle() false.           *)
(***************************************************************************)
C8_NegativeCycleDetection ==
    (Ended /\ AllReachable)
        => /\ sp.pc = "done"
           /\ BF_has_negative_cycle(sp) <=> NegativeCycleReachable(start)
           /\ ~NegativeCycleReachable(start)
                 => (sp.queue = <<>> /\ ~BF_has_negative_cycle(sp))

(***************************************************************************)
(* C9.  BellmanFordSP with source 0 on the 8-vertex, 15-edge test digraph  *)
(* (edges 6->2 -1.2, 6->0 -1.4 and 6->4 -1.25 among them) sets             *)
(* has_negative_cycle() to True.                                           *)
(***************************************************************************)
C9_TinyReportsNegativeCycle ==
    (input = TinyEWDn /\ start = 0 /\ Ended) => BF_has_negative_cycle(sp)

\* C9 as the code has it: the constructor returns with has_negative_cycle() False, and
\* rightly so, every edge being relaxed at the end (the digraph has no negative cycle)
C9_TinyReportsNoNegativeCycle ==
    (input = TinyEWDn /\ start = 0 /\ Ended)
        => /\ sp.pc = "done"
           /\ ~BF_has_negative_cycle(sp)
           /\ \A v \in DiVertices : SP_has_path_to(sp, v)
           /\ EveryEdgeRelaxed

C9_Witness ==
    /\ input = TinyEWDn /\ start = 0 /\ sp.pc = "done"
    /\ sp.queue = <<>> /\ sp.cost > 15 /\ sp.dist_to[6] = 1510

(***************************************************************************)
(* C10.  On a digraph without a negative cycle reachable from the source,  *)
(* vertices unreachable from the source included, BellmanFordSP(g, s)      *)
(* completes without raising, and every unreachable vertex v then has      *)
(* dist_to(v) = +infinity and has_path_to(v) = False.                      *)
(***************************************************************************)
C10_UnreachableIsNormal ==
    (Ended /\ ~NegativeCycleReachable(start))
        => /\ sp.pc = "done"
           /\ \A v \in DiVertices \ Reachable(start) :
                 /\ SP_dist_to(sp, v) = INFINITE_POSITIVE_NUMBER
                 /\ ~SP_has_path_to(sp, v)

(***************************************************************************)
(* What the path properties speak of: acyclic digraphs, the heaviest path, *)
(* the shape of a returned path.                                           *)
(***************************************************************************)
\* no vertex is reached again from the ends of its own edges
DiAcyclic ==
    \A v \in DiVertices : v \notin DiReach({e.end : e \in {f \in DiEdges : f.start = v}})

MaxOf(S) == CHOOSE x \in S : \A y \in S : x >= y

\* the greatest weight of a path of at most k edges from s, for every vertex
RECURSIVE LongPathWeights(_, _)
LongPathWeights(s, k) ==
    IF k = 0 THEN [v \in DiVertices |-> IF v = s THEN 0 ELSE INFINITE_NEGATIVE_NUMBER]
    ELSE LET D == LongPathWeights(s, k - 1)
         IN  [v \in DiVertices |->
                MaxOf({D[v]} \cup {Plus(D[e.start], e.weight) : e \in {f \in DiEdges : f.end = v}})]

\* in an acyclic digraph a path has at most V - 1 edges
LongestDist(s) == LongPathWeights(s, Cardinality(DiVertices) - 1)

\* p runs from s to v, edge by edge
LeadsTo(p, s, v) ==
    IF p = <<>> THEN v = s
    ELSE /\ p[1].start = s
         /\ p[Len(p)].end = v
         /\ \A i \in 1 .. (Len(p) - 1) : p[i].end = p[i + 1].start

PathWeight(p) == SumSeq([i \in 1 .. Len(p) |-> p[i].weight])

\* the constructor was given what it asks for: weights >= 0 for DijkstraSP, an acyclic
\* digraph for AcyclicSP and AcyclicLP
WithinPrecondition ==
    /\ sp.class = "DijkstraSP" => NonNegativeWeights
    /\ sp.class \in {"AcyclicSP", "AcyclicLP"} => DiAcyclic

(***************************************************************************)
(* C11.  For DijkstraSP, AcyclicSP and AcyclicLP constructed on (g, s),    *)
(* has_path_to(v) is true exactly for the vertices v reachable from s, and *)
(* for every unreachable v path_to(v) returns None without raising.        *)
(***************************************************************************)
C11_HasPathIffReachable ==
    (sp.pc = "done" /\ sp.class \in {"DijkstraSP", "AcyclicSP", "AcyclicLP"}
                    /\ WithinPrecondition)
        => \A v \in DiVertices :
              /\ SP_has_path_to(sp, v) <=> v \in Reachable(start)
              /\ v \notin Reachable(start) => SP_path_to(sp, v).kind = "None"

(***************************************************************************)
(* C12.  Once BellmanFordSP has stopped on a recorded negative cycle,      *)
(* every vertex v reachable from that cycle has has_path_to(v) False and   *)
(* path_to(v) returns None; path_to(v) returns at all.                     *)
(***************************************************************************)
C12_NoPathBeyondNegativeCycle ==
    (sp.pc = "done" /\ sp.class = "BellmanFordSP" /\ BF_has_negative_cycle(sp))
        => \A v \in DiReach({sp.cycle[i].end : i \in DOMAIN sp.cycle}) :
              /\ ~SP_has_path_to(sp, v)
              /\ SP_path_to(sp, v).kind = "None"

(***************************************************************************)
(* C13.  On a DijkstraSP, AcyclicSP or BellmanFordSP object that completed *)
(* without a negative cycle, for every v reachable from the source s,      *)
(* path_to(v) yields edges e1 .. ek from s to v, each ending where the     *)
(* next starts, whose weights add up to dist_to(v); path_to(s) is empty.   *)
(***************************************************************************)
C13_PathMatchesDistance ==
    (sp.pc = "done" /\ sp.class \in {"DijkstraSP", "AcyclicSP", "BellmanFordSP"}
                    /\ WithinPrecondition /\ ~NegativeCycleReachable(start))
        => /\ \A v \in Reachable(start) :
                 /\ SP_path_to(sp, v).kind = "path"
                 /\ LeadsTo(SP_path_to(sp, v).path, start, v)
                 /\ PathWeight(SP_path_to(sp, v).path) = SP_dist_to(sp, v)
           /\ SP_path_to(sp, start).path = <<>>

C15_RelaxationTerminates ==
    /\ [](sp.pc = "loop" => (sp.cost < MaxCost /\ sp.queue # <<>>))
    /\ [][sp.pc = "loop"
            => \/ sp'.cost > sp.cost
               \/ sp'.cost = sp.cost /\ Len(sp'.queue) < Len(sp.queue)]_vars
    /\ [](Ended => (sp.queue = <<>> \/ BF_has_negative_cycle(sp)))

\* the loop was left on a recorded cycle, with vertices still queued
C15_Witness ==
    /\ sp.pc = "done" /\ NegativeCycleReachable(start)
    /\ BF_has_negative_cycle(sp) /\ sp.queue # <<>>

C17_AcyclicDistances ==
    (sp.pc \in {"loop", "done"} /\ sp.class \in {"AcyclicSP", "AcyclicLP"} /\ DiAcyclic)
        => /\ SeqToSet(sp.order) = DiVertices /\ Len(sp.order) = Cardinality(DiVertices)
           /\ \A i, j \in 1 .. Len(sp.order) :
                 (\E e \in DiEdges : e.start = sp.order[i] /\ e.end = sp.order[j]) => i < j
           /\ sp.pc = "done"
                 => /\ sp.i = Len(sp.order)
                    /\ \A v \in Reachable(start) :
                          SP_dist_to(sp, v) = IF sp.class = "AcyclicSP"
                                              THEN ShortestDist(start)[v]
                                              ELSE LongestDist(start)[v]

\* AcyclicLP has ended on a digraph where the lightest and the heaviest path to some
\* vertex differ
C17_Witness ==
    /\ sp.pc = "done" /\ sp.class = "AcyclicLP" /\ DiAcyclic
    /\ \E v \in Reachable(start) : ShortestDist(start)[v] < LongestDist(start)[v]

(***************************************************************************)
(* What the Digragh properties speak of: the edges test_data asks for, a   *)
(* pair (v, v) being no edge, the vertices they touch, what a set of       *)
(* vertices leads to, and whether some vertex leads back to itself.        *)
(***************************************************************************)
DgEdges == {p \in Range(input) : p[1] # p[2]}

DgVertices == {p[1] : p \in DgEdges} \cup {p[2] : p \in DgEdges}

DgSucc(S) == {p[2] : p \in {e \in DgEdges : e[1] \in S}}

RECURSIVE DgReach(_)
DgReach(S) == IF DgSucc(S) \subseteq S THEN S ELSE DgReach(S \cup DgSucc(S))

DgCyclic == \E v \in DgVertices : v \in DgReach(DgSucc({v}))

(***************************************************************************)
(* C18.  On every acyclic Digragh, Topological(g).is_DAG() is true and     *)
(* order() holds every vertex of g exactly once, u before w for every      *)
(* edge u -> w.                                                            *)
(***************************************************************************)
C18_TopologicalOrder ==
    (topo.pc = "done" /\ ~DgCyclic)
        => /\ Topological_is_DAG(topo)
           /\ Len(Topological_order(topo)) = Cardinality(DgVertices)
           /\ SeqToSet(Topological_order(topo)) = DgVertices
           /\ \A i, j \in DOMAIN Topological_order(topo) :
                 <<Topological_order(topo)[i], Topological_order(topo)[j]>> \in DgEdges
                     => i < j

\* an order has been returned for an acyclic digraph of three edges that is not the
\* ascending order of the vertices
C18_Witness ==
    /\ topo.pc = "done" /\ ~DgCyclic /\ Cardinality(DgEdges) >= 3
    /\ Topological_is_DAG(topo)
    /\ Topological_order(topo) # Digragh_vertices(graph)

(***************************************************************************)
(* C19.  On every Digragh, DirectedCycle(g).has_cycle() is true exactly    *)
(* when g has a directed cycle; cycle() is then a sequence v0 .. vk with   *)
(* v0 = vk whose consecutive vertices are joined by an edge of g, and      *)
(* Topological(g).is_DAG() is false with order() None.                     *)
(***************************************************************************)
C19_DirectedCycle ==
    /\ dc.pc = "done"
          => /\ DC_has_cycle(dc) <=> DgCyclic
             /\ DC_has_cycle(dc)
                   => /\ Len(DC_cycle(dc)) >= 2
                      /\ DC_cycle(dc)[1] = DC_cycle(dc)[Len(DC_cycle(dc))]
                      /\ \A i \in 1 .. (Len(DC_cycle(dc)) - 1) :
                            <<DC_cycle(dc)[i], DC_cycle(dc)[i + 1]>> \in DgEdges
    /\ (topo.pc = "done" /\ DgCyclic)
          => (~Topological_is_DAG(topo) /\ Topological_order(topo) = NoOrder)

\* a cycle through three vertices has been found, and Topological has refused the digraph
C19_Witness ==
    /\ dc.pc = "done" /\ Len(DC_cycle(dc)) >= 4
    /\ topo.pc = "done" /\ Topological_order(topo) = NoOrder

(***************************************************************************)
(* What the union-find property speaks of: the pairs unioned so far and    *)
(* the sets they make.                                                     *)
(***************************************************************************)
Unioned == {[a |-> input[k][1], b |-> input[k][2]] : k \in 1 .. uf.i}

SameSet(p, q) == q \in Reach(Unioned, {p})

(***************************************************************************)
(* C20.  After any sequence of union(p, q) calls with ids from 0 .. V - 1, *)
(* 0 included, connected(p, q) is truthy exactly when p and q are in the   *)
(* same set, that is, related by the reflexive, symmetric and transitive   *)
(* closure of the pairs unioned.                                           *)
(***************************************************************************)
C20_ConnectedIffSameSet ==
    uf.pc = "ready"
        => \A p, q \in DOMAIN uf.id : GUF_connected(uf.id, p, q) <=> SameSet(p, q)

(***************************************************************************)
(* What the path-compression property speaks of: the nodes a parent chain  *)
(* passes through, and whether two nodes' chains meet.                     *)
(***************************************************************************)
RECURSIVE UFChain(_, _)
UFChain(id, S) ==
    IF {id[v] : v \in S} \subseteq S THEN S ELSE UFChain(id, S \cup {id[v] : v \in S})

UFJoined(id, p, q) == UFChain(id, {p}) \cap UFChain(id, {q}) # {}

(***************************************************************************)
(* C21.  In the path-compressing UnionFind, after any sequence of union    *)
(* and find calls with ids in 0 .. size - 1: the parent chain of every     *)
(* node ends in a root and find returns; find(find(v)) = find(v); a        *)
(* second find(v) returns the same root; and a find call changes neither   *)
(* count() nor which pairs are connected.                                  *)
(***************************************************************************)
C21_FindIsIdempotent ==
    uf.pc = "ready"
        => \A v \in DOMAIN uf.id :
              /\ \E r \in UFChain(uf.id, {v}) : uf.id[r] = r
              /\ UF_find(uf, v).returned.kind = "number"
              /\ UF_find(UF_find(uf, v).after, UF_find(uf, v).returned.num).returned
                    = Returned("number", UF_find(uf, v).returned.num, <<>>)
              /\ UF_find(UF_find(uf, v).after, v).returned.kind = "number"
              /\ UF_find(UF_find(uf, v).after, v).returned.num = UF_find(uf, v).returned.num
              /\ UF_count(UF_find(uf, v).after) = UF_count(uf)
              /\ \A p, q \in DOMAIN uf.id :
                    UFJoined(UF_find(uf, v).after.id, p, q) <=> UFJoined(uf.id, p, q)

\* a find has just compressed a path: it re-pointed two nodes or more, the first of
\* which was not a child of the root
C21_Witness ==
    /\ uf.pc = "ready" /\ query.call = "find" /\ query.kind = "number"
    /\ Len(query.path) >= 2

(***************************************************************************)
(* What the graph-construction properties speak of: the add_edge calls     *)
(* made so far and the incidence lists they left.                          *)
(***************************************************************************)
GraphIs(class) == graph.class = class

\* the Edge / DirectedEdge object made for the k-th call
AddedEdge(k) == Edge(input[k][1], input[k][2], input[k][3], k)

AddedDirectedEdge(k) == DirectedEdge(input[k][1], input[k][2], input[k][3], k)

IsSelfLoop(k) == input[k][1] = input[k][2]

SelfLoopsAdded == Cardinality({k \in DOMAIN input : IsSelfLoop(k)})

\* how often an object stands in a list
Occurrences(list, x) == Cardinality({j \in DOMAIN list : list[j] = x})

\* the lists an object stands in
ListsHolding(adj, x) == {v \in DOMAIN adj : Occurrences(adj[v], x) > 0}

EndpointsAdded == {input[k][1] : k \in DOMAIN input} \cup {input[k][2] : k \in DOMAIN input}

\* the directed half of the incidence property
DigraphIncidence ==
    GraphIs("EdgeWeightedDigraph") =>
        /\ EWD_edges_size(graph) = Len(input)
        /\ \A k \in DOMAIN input :
             /\ ListsHolding(graph.adj, AddedDirectedEdge(k)) = {input[k][1]}
             /\ Occurrences(EWD_adjacent_edges(graph, input[k][1]), AddedDirectedEdge(k)) = 1
        /\ graph.vertices = EndpointsAdded

\* C22 as stated: after any sequence of add_edge calls, an EdgeWeightedGraph counts the
\* calls and holds every added edge in exactly two incidence lists, once in the list of
\* each endpoint and in no other list; an EdgeWeightedDigraph counts the calls, holds
\* every edge exactly once and only in the list of its start vertex, and vertices() is
\* the set of all edge endpoints.
C22_IncidenceAsStated ==
    /\ GraphIs("EdgeWeightedGraph") =>
         /\ edges_size(graph) = Len(input)
         /\ \A k \in DOMAIN input :
              /\ Cardinality(ListsHolding(graph.adj, AddedEdge(k))) = 2
              /\ ListsHolding(graph.adj, AddedEdge(k)) = {input[k][1], input[k][2]}
              /\ \A v \in {input[k][1], input[k][2]} :
                   Occurrences(adjacent_edges(graph, v), AddedEdge(k)) = 1
    /\ DigraphIncidence

\* C22 amended: as stated for every edge with two different endpoints; a self-loop
\* stands twice in the one list of its vertex (two incidence entries, one list).
C22_Incidence ==
    /\ GraphIs("EdgeWeightedGraph") =>
         /\ edges_size(graph) = Len(input)
         /\ \A k \in DOMAIN input :
              /\ ListsHolding(graph.adj, AddedEdge(k)) = {input[k][1], input[k][2]}
              /\ \A v \in {input[k][1], input[k][2]} :
                   Occurrences(adjacent_edges(graph, v), AddedEdge(k))
                     = IF IsSelfLoop(k) THEN 2 ELSE 1
    /\ DigraphIncidence

\* three calls made on an EdgeWeightedGraph, a self-loop and a parallel pair among them
C22_Witness ==
    /\ GraphIs("EdgeWeightedGraph")
    /\ Len(input) = GraphMaxE
    /\ \E k \in DOMAIN input : IsSelfLoop(k)
    /\ \E k, l \in DOMAIN input :
         k # l /\ ~IsSelfLoop(k) /\ {input[k][1], input[k][2]} = {input[l][1], input[l][2]}

\* C23: for EdgeWeightedGraph and WeightedGraph, after any sequence of add_edge calls,
\* edges() contains every added edge that is not a self-loop exactly once and no
\* self-loop, so its size is edges_size() minus the number of self-loops added.
C23_EdgesListsEachEdgeOnce ==
    /\ GraphIs("EdgeWeightedGraph") =>
         /\ \A k \in DOMAIN input : (AddedEdge(k) \in edges(graph)) = ~IsSelfLoop(k)
         /\ Cardinality(edges(graph)) = edges_size(graph) - SelfLoopsAdded
    /\ GraphIs("WeightedGraph") =>
         /\ \A k \in DOMAIN input :
              (<<input[k][3], input[k][1], input[k][2]>> \in WG_edges(graph)) = ~IsSelfLoop(k)
         /\ \A t \in WG_edges(graph) : t[2] # t[3]
         /\ Cardinality(WG_edges(graph)) = WG_edges_size(graph) - SelfLoopsAdded

\* what a caller can see of an EdgeWeightedGraph: vertices(), vertices_size(),
\* edges_size() and the adjacency list of every vertex id
ObservedGraph(g) ==
    [vertices |-> vertices(g),
     vertices_size |-> vertices_size(g),
     edges_size |-> edges_size(g),
     adjacent |-> [v \in AnyStart |-> adjacent_edges(g, v)]]

\* C24: the input graph is read-only for the algorithms: whatever the start vertex
\* argument, no step of the KruskalMST, LazyPrimMST or PrimMST constructor changes the
\* graph's vertices(), vertices_size(), edges_size() or any adjacency list
C24_GraphIsReadOnly == [][ObservedGraph(graph') = ObservedGraph(graph)]_vars

(***************************************************************************)
(* module_4_3.DynamicMST: a KruskalMST whose tree is updated when an edge  *)
(* is added to the graph.  Its __init__ and _init_priority_queue are the   *)
(* text of KruskalMST's, so the object is built by the Kruskal_ operators  *)
(* and held in the variable kruskal.                                       *)
(***************************************************************************)
\* "edge is not new_edge and edge in mst_query_set": the set holds Edge objects by
\* their hash and __eq__
DMST_in_cycle_search(edge, new_edge, mst_query_set) ==
    edge.id # new_edge.id /\ \E f \in mst_query_set : Edge_same(edge, f)

\* max(path): the first edge that no later one exceeds
RECURSIVE DMST_max(_, _)
DMST_max(best, rest) ==
    IF rest = <<>> THEN best
    ELSE DMST_max(IF Edge_gt(Head(rest), best) THEN Head(rest) ELSE best, Tail(rest))

\* The while loop of _get_max_cycle_edge and the two lines after it.  Every list that
\* is enqueued on cycle is the one list object path, so cycle is told by the number of
\* references it holds (refs) and path by its current content.
RECURSIVE DMST_while(_, _, _, _, _, _, _)
DMST_while(g, mst_query_set, new_edge, start_vertex, end_vertex, path, refs) ==
    IF start_vertex # end_vertex
    THEN IF refs = 0
         THEN [raised |-> "TypeError", edge |-> new_edge]   \* cycle.dequeue() is None
         ELSE LET last_edge == path[Len(path)]
                  a == either(last_edge)
                  b == other(last_edge, a)
                  next_vertex == IF a = start_vertex THEN b ELSE a
                  found == SelectSeq(adjacent_edges(g, next_vertex),
                                     LAMBDA e : DMST_in_cycle_search(e, new_edge, mst_query_set))
              IN  DMST_while(g, mst_query_set, new_edge, next_vertex, end_vertex,
                             path \o found, (refs - 1) + Len(found))
    ELSE IF refs = 0
         THEN [raised |-> "TypeError", edge |-> new_edge]   \* max(None)
         ELSE [raised |-> "none", edge |-> DMST_max(Head(path), Tail(path))]

DMST_get_max_cycle_edge(o, g, new_edge) ==
    DMST_while(g, SeqToSet(o.mst) \cup {new_edge}, new_edge,
               either(new_edge), other(new_edge, either(new_edge)), <<new_edge>>, 1)

\* incr_edge(graph, edge): the object afterwards and what the call returned
DMST_incr_edge(o, g, edge) ==
    LET max_cycle_edge == DMST_get_max_cycle_edge(o, g, edge)
        result == SelectSeq(Append(o.mst, edge), LAMBDA e : e.id # max_cycle_edge.edge.id)
    IN  IF max_cycle_edge.raised # "none"
        THEN [after |-> o, returned |-> Returned(max_cycle_edge.raised, 0, <<>>)]
        ELSE [after |-> [o EXCEPT !.mst = result], returned |-> Returned("queue", 0, result)]

(***************************************************************************)
(* DynamicMST(graph) on a connected generated graph, then, any number of   *)
(* times up to DynMaxAdds, graph.add_edge(new_edge) followed by            *)
(* incr_edge(graph, new_edge).  A new edge has at least one endpoint in    *)
(* the graph, so the graph stays connected.                                *)
(***************************************************************************)
DynMaxV == 3          \* the graph DynamicMST is built on has at most DynMaxV vertices
DynMaxAdds == 2       \* at most DynMaxAdds edges are added afterwards
DynMaxWeight == 3     \* an added edge has weight 1 .. DynMaxWeight

InitDynamicMST ==
    /\ InitOn(SmallInputs(DynMaxV))
    /\ ConnectedGraph

DynamicMSTConstruct ==
    /\ kruskal.pc = "new"
    /\ \E order \in SetOrders(edges(graph)) :
         kruskal' = Kruskal_finish(Kruskal_new(order), Kruskal_more(Kruskal_new(order), graph))
    /\ query' = Call("DynamicMST", Len(input), Returned("None", 0, <<>>))
    /\ UNCHANGED <<input, graph, start, lazy, prim, sp, uf, dc, topo>>

DynamicMSTStep ==
    /\ kruskal.pc = "loop"
    /\ kruskal' = Kruskal_finish(Kruskal_body(kruskal),
                                 Kruskal_more(Kruskal_body(kruskal), graph))
    /\ UNCHANGED <<input, graph, start, lazy, prim, sp, uf, dc, topo, query>>

\* new_edge = Edge(a, b, weight); ewg.add_edge(new_edge)
DynamicAddEdge ==
    /\ kruskal.pc = "done"
    /\ query.call \in {"DynamicMST", "incr_edge"}
    /\ Len(input) < query.vertex + DynMaxAdds
    /\ \E a, b \in GraphVertices \cup {Cardinality(GraphVertices)}, weight \in 1 .. DynMaxWeight :
         /\ a \in GraphVertices \/ b \in GraphVertices
         /\ input' = Append(input, <<a, b, weight>>)
         /\ graph' = add_edge(graph, Edge(a, b, weight, Len(input) + 1))
         /\ query' = Call("add_edge", query.vertex,
                          Returned("None", 0, <<Edge(a, b, weight, Len(input) + 1)>>))
    /\ UNCHANGED <<start, kruskal, lazy, prim, sp, uf, dc, topo>>

\* dmst.incr_edge(ewg, new_edge)
IncrEdge ==
    /\ kruskal.pc = "done"
    /\ query.call = "add_edge"
    /\ kruskal' = DMST_incr_edge(kruskal, graph, query.path[1]).after
    /\ query' = Call("incr_edge", query.vertex, DMST_incr_edge(kruskal, graph, query.path[1]).returned)
    /\ UNCHANGED <<input, graph, start, lazy, prim, sp, uf, dc, topo>>

NextDynamicMST ==
    \/ DynamicMSTConstruct
    \/ DynamicMSTStep
    \/ DynamicAddEdge
    \/ IncrEdge

SpecDynamicMST == InitDynamicMST /\ [][NextDynamicMST]_vars

\* C25: for a DynamicMST built on a connected graph, after any sequence of "add a new
\* edge to the graph, then incr_edge(graph, new_edge)", incr_edge returns, and the
\* returned and stored edges are a minimum spanning tree of the updated graph: V - 1
\* edges of it, no cycle, every vertex touched, total weight the minimum over all
\* spanning trees.
C25_IncrEdgeKeepsMST ==
    query.call = "incr_edge"
        => /\ query.kind = "queue"
           /\ query.path = kruskal.mst
           /\ IsMST(kruskal.mst)

\* the edge the next iteration of LazyPrimMST's loop dequeues, and its endpoints
LazyNextEdge == MinPQ_min(lazy.pq)

LazyNextEnds == {either(LazyNextEdge), other(LazyNextEdge, either(LazyNextEdge))}

\* the tree edges so far are a tree on exactly the marked vertices
LazyTreeSpansMarked ==
    /\ Len(lazy.mst) = Cardinality(lazy.marked) - 1
    /\ Acyclic(lazy.mst)
    /\ Reach(SeqToSet(lazy.mst), {start}) = lazy.marked

\* C26: at every iteration of LazyPrimMST's loop the tree edges form a tree spanning
\* exactly the marked vertices (as many edges as marked vertices less one, no cycle);
\* an edge is appended only if exactly one of its endpoints was marked when it was
\* dequeued, and a dequeued edge with both endpoints marked is discarded without
\* changing the tree or the marked set.
C26_LazyPrimLoopInvariant ==
    /\ [](lazy.pc \in {"loop", "done"} => LazyTreeSpansMarked)
    /\ [][lazy.pc = "loop" =>
            IF LazyNextEnds \subseteq lazy.marked
            THEN lazy'.mst = lazy.mst /\ lazy'.marked = lazy.marked
            ELSE /\ Cardinality(LazyNextEnds \cap lazy.marked) = 1
                 /\ lazy'.mst = Append(lazy.mst, LazyNextEdge)
                 /\ lazy'.marked = lazy.marked \cup LazyNextEnds]_vars

\* LazyPrimMST finished on a connected graph with a cycle: it kept at least two edges
\* and discarded at least one
C26_Witness ==
    /\ lazy.pc = "done"
    /\ ConnectedGraph
    /\ Len(lazy.mst) >= 2
    /\ Len(input) > Len(lazy.mst)

\* AcyclicSP or AcyclicLP has been called on a digraph with a directed cycle
AcyclicOnCycle ==
    /\ sp.pc \in {"loop", "done", "raised"}
    /\ sp.class \in {"AcyclicSP", "AcyclicLP"}
    /\ ~DiAcyclic

BellmanFordFoundCycle ==
    /\ sp.pc \in {"done", "raised"}
    /\ sp.class = "BellmanFordSP"
    /\ BF_has_negative_cycle(sp)

\* a non-empty sequence of edges, each ending where the next starts, the last ending
\* where the first starts
ClosedDirectedCycle(es) ==
    /\ es # <<>>
    /\ \A i \in 1 .. (Len(es) - 1) : es[i].end = es[i + 1].start
    /\ es[Len(es)].end = es[1].start

\* C28: whenever BellmanFordSP finishes with has_negative_cycle() true, negative_cycle()
\* is a non-empty closed directed cycle of edges of the input graph whose weights sum to
\* a strictly negative number, so the assertion on check() at the end of the constructor
\* does not fail.
C28_NegativeCycleIsNegative ==
    BellmanFordFoundCycle =>
        /\ SeqToSet(BF_negative_cycle(sp)) \subseteq DiEdges
        /\ ClosedDirectedCycle(BF_negative_cycle(sp))
        /\ SumSeq([i \in 1 .. Len(sp.cycle) |-> sp.cycle[i].weight]) < 0
        /\ sp.pc = "done"

\* the BellmanFordSP object after each edge of one call of relax, the object at the
\* call first
RECURSIVE BF_relax_trace(_, _, _, _)
BF_relax_trace(b, g, es, vertex) ==
    IF es = <<>> THEN <<b>>
    ELSE <<b>> \o BF_relax_trace(BF_relax_edge(b, g, Head(es), vertex), g, Tail(es), vertex)

\* the iteration that is about to run: the object after "dequeue" and
\* "_on_queue[vertex] = False", then after each edge relaxed
BellmanFordIteration ==
    LET vertex == Head(sp.queue)
    IN  BF_relax_trace([sp EXCEPT !.queue = Tail(@), !.on_queue = @ \ {vertex}],
                       graph, EWD_adjacent_edges(graph, vertex), vertex)

\* no vertex twice in the queue, and flagged exactly the vertices in the queue
QueueMatchesFlags(b) ==
    /\ \A i, j \in DOMAIN b.queue : i # j => b.queue[i] # b.queue[j]
    /\ b.on_queue = SeqToSet(b.queue)
    /\ Len(b.queue) <= Cardinality(DiVertices)

\* between two moments the queue is untouched, or one vertex was appended whose dist_to
\* is now strictly smaller
EnqueuedAfterDecrease(before, after) ==
    \/ after.queue = before.queue
    \/ \E v \in DiVertices :
         /\ after.queue = Append(before.queue, v)
         /\ after.dist_to[v] < before.dist_to[v]

\* C29: throughout BellmanFordSP's relaxation loop the queue never holds a vertex twice,
\* on_queue[v] is true exactly when v is in the queue (so the queue holds at most V
\* vertices), and a vertex is enqueued only immediately after its dist_to strictly
\* decreased.
C29_QueueDiscipline ==
    (sp.pc \in {"loop", "done", "raised"} /\ sp.class = "BellmanFordSP") =>
        /\ QueueMatchesFlags(sp)
        /\ sp.pc = "loop" =>
             \A i \in DOMAIN BellmanFordIteration :
                /\ QueueMatchesFlags(BellmanFordIteration[i])
                /\ i < Len(BellmanFordIteration)
                      => EnqueuedAfterDecrease(BellmanFordIteration[i], BellmanFordIteration[i + 1])

\* non-negative weights of which one, 0.006, lies between two hundredths
RoundingWeights == {0, 6, 10}

InitDijkstraRounding == InitDigraphOn(DiInputs(RoundingWeights))

SpecDijkstraRounding == InitDijkstraRounding /\ [][NextDijkstra]_vars

(***************************************************************************)
(* The calls DijkstraSP.relax and PrimMST.visit make on their indexed      *)
(* queue, in the order they are made.  Each call is recorded with what the *)
(* queue and the object held when it was issued: whether the vertex was    *)
(* queued and under which key, whether delete_min had removed it before,   *)
(* and whether every queued key equals dist_to once the call is over.      *)
(***************************************************************************)
KeysFollowDistTo(o) == \A v \in DOMAIN o.pq : o.pq[v] = o.dist_to[v]

PQCall(before, after, v, removed) ==
    [op |-> IF IndexMinPQ_contains(before.pq, v) THEN "change_key" ELSE "insert",
     vertex |-> v,
     key |-> after.dist_to[v],
     queued |-> IndexMinPQ_contains(before.pq, v),
     old_key |-> IF IndexMinPQ_contains(before.pq, v) THEN before.pq[v] ELSE None,
     removed |-> removed,
     synced |-> KeysFollowDistTo(after)]

RECURSIVE Dijkstra_relax_calls(_, _, _)
Dijkstra_relax_calls(d, es, vertex) ==
    IF es = <<>> THEN <<>>
    ELSE LET edge == Head(es)
             end == edge.end
             d1 == Dijkstra_relax_edge(d, edge, vertex)
             \* a vertex is queued and unqueued once its dist_to has left infinity
             removed == d.dist_to[end] # INFINITE_POSITIVE_NUMBER
                        /\ ~IndexMinPQ_contains(d.pq, end)
         IN  (IF d.dist_to[end] > Plus(d.dist_to[vertex], edge.weight)
              THEN <<PQCall(d, d1, end, removed)>> ELSE <<>>)
             \o Dijkstra_relax_calls(d1, Tail(es), vertex)

RECURSIVE Prim_visit_calls(_, _, _)
Prim_visit_calls(p, es, vertex) ==
    IF es = <<>> THEN <<>>
    ELSE LET edge == Head(es)
             other_vertex == other(edge, vertex)
             p1 == PrimVisitEdge(p, edge, vertex)
         IN  (IF other_vertex \notin p.marked /\ edge.w < p.dist_to[other_vertex]
              THEN <<PQCall(p, p1, other_vertex, FALSE)>> ELSE <<>>)
             \o Prim_visit_calls(p1, Tail(es), vertex)

\* the calls of the iteration in which delete_min returns vertex
Dijkstra_body_calls(d, g, vertex) ==
    Dijkstra_relax_calls([d EXCEPT !.pq = IndexMinPQ_remove(@, vertex)],
                         EWD_adjacent_edges(g, vertex), vertex)

Prim_body_calls(p, g, vertex) ==
    Prim_visit_calls([p EXCEPT !.pq = IndexMinPQ_remove(@, vertex),
                               !.marked = @ \cup {vertex}],
                     adjacent_edges(g, vertex), vertex)

RespectsContract(call) ==
    /\ call.op = "change_key" => call.queued /\ call.key < call.old_key
    /\ call.op = "insert" => ~call.queued
    /\ call.synced
    /\ (NonNegativeWeights /\ call.op = "insert") => ~call.removed

DijkstraIteration(vertex) ==
    /\ sp.pc = "loop" /\ sp.class = "DijkstraSP"
    /\ vertex \in IndexMinPQ_mins(sp.pq)
    /\ sp' = Finish(Dijkstra_body(sp, graph, vertex), Dijkstra_more(Dijkstra_body(sp, graph, vertex)))

PrimIteration(vertex) ==
    /\ prim.pc = "loop"
    /\ vertex \in IndexMinPQ_mins(prim.pq)
    /\ prim' = Finish(Prim_body(prim, graph, vertex), Prim_more(Prim_body(prim, graph, vertex)))

\* C30: in DijkstraSP and PrimMST every call on the indexed queue respects its contract:
\* change_key(v, k) is issued only when v is queued and k is strictly smaller than its key,
\* insert(v, k) only when v is not queued, every queued key equals dist_to of its vertex,
\* and with non-negative weights no vertex is inserted again after delete_min removed it.
C30_QueueContract ==
    /\ [](/\ sp.pc = "loop" => (sp.class = "DijkstraSP" => KeysFollowDistTo(sp))
          /\ prim.pc = "loop" => KeysFollowDistTo(prim))
    /\ [][/\ \A vertex \in (IF sp.pc = "loop" THEN DOMAIN sp.dist_to ELSE {}) :
               DijkstraIteration(vertex) =>
                   \A i \in DOMAIN Dijkstra_body_calls(sp, graph, vertex) :
                       RespectsContract(Dijkstra_body_calls(sp, graph, vertex)[i])
          /\ \A vertex \in (IF prim.pc = "loop" THEN DOMAIN prim.dist_to ELSE {}) :
               PrimIteration(vertex) =>
                   \A i \in DOMAIN Prim_body_calls(prim, graph, vertex) :
                       RespectsContract(Prim_body_calls(prim, graph, vertex)[i])]_vars

====
